---- MODULE Spec2Model ----
(***************************************************************************)
(* Toygres control plane: the catalog (CMS) activities, the Kubernetes     *)
(* activities and the three durable workflows built on them                *)
(* (CreateInstance, DeleteInstance, InstanceActor).                        *)
(*                                                                         *)
(* One action is one workflow step: the activity (or timer) the workflow   *)
(* awaits, executed atomically, together with the workflow code that runs  *)
(* up to the next await.  CMS:Free DNS is two steps because the activity   *)
(* issues its SELECT and its UPDATE as two separate statements outside a   *)
(* transaction.                                                            *)
(***************************************************************************)
EXTENDS Naturals, Sequences, FiniteSets, TLC

\* ------------------------------------------------------------------------
\* Bounds of the model
\* ------------------------------------------------------------------------
\* how many activity invocations may return an error in one behaviour
MaxFaults == 2
\* how many readiness probes may answer is_ready=false in one behaviour
MaxStalls == 1
\* how many duplicate (at-least-once) executions of CMS:Reserve Record
MaxDups == 1
\* how many row ids the catalog generates in one behaviour of SpecCms
MaxIds == 3
\* how many activity invocations may return an error in one behaviour of
\* FairSpec
FairFaults == 1

\* ------------------------------------------------------------------------
\* Program constants
\* ------------------------------------------------------------------------
\* create_instance.rs:119  let max_attempts = 60
max_attempts == 60

\* k8s names of the instances (user_name-<8 hex>, api.rs:243-244)
Instances == {"a", "b"}

\* the instance whose workflows run in Spec; SpecCms uses all of Instances
Focus == {"a"}

\* SQL NULL / Option::None
NULL == <<>>

\* the sentinel prefix (free_dns_name.rs:39,47)
DeletedPrefix == "__deleted_"

\* dns labels a caller may ask for (CreateInstanceInput.dns_label); a name
\* is the sequence of its parts so that the prefix test is a computation
LabelChoices == {NULL, <<"x">>}

\* workflow instance ids (api.rs:245, api.rs:413, create_instance.rs:242,286)
CreateId(k) == <<"create", k>>
DeleteId(k) == <<"delete", k>>
CleanupId(k) == <<"cleanup", k>>
ActorId(k) == <<"actor", k>>

\* the DeleteInstance workflow instances: the one a user starts and the one
\* CreateInstance's cleanup starts as a sub-orchestration
Deletes == {"delete", "cleanup"} \X Instances

\* ------------------------------------------------------------------------
\* State
\* ------------------------------------------------------------------------
VARIABLES
    rows,       \* catalog table instances, keyed by k8s_name
    nextId,     \* next generated row id
    k8s,        \* cluster resources per instance name
    cpc,        \* CreateInstance: position
    clabel,     \* CreateInstance: input.dns_label
    cattempt,   \* CreateInstance: readiness loop attempt
    cid,        \* CreateInstance: id returned by CMS:Reserve Record
    chist,      \* CreateInstance: steps awaited so far, body error, result
    dpc,        \* DeleteInstance: position
    dloc,       \* DeleteInstance: locals
    apc,        \* InstanceActor: position
    aloc,       \* InstanceActor: locals of the current execution
    aevent,     \* InstanceActor: InstanceDeleted raised into its history
    dup,        \* outcome of the duplicate CMS:Reserve Record executions
    faults,     \* activity errors still available
    stalls,     \* not-ready answers still available
    dups,       \* duplicate executions still available
    started,    \* workflow instances handed to the runtime, with their inputs
    utx,        \* CMS:Update State transactions in flight, per worker
    events,     \* table instance_events, per row id, in insertion order
    replay,     \* a workflow and the results recorded in its history
    rcall       \* the last CMS:Reserve Record invocation and its result

vars == <<rows, nextId, k8s, cpc, clabel, cattempt, cid, chist, dpc, dloc, apc, aloc,
          aevent, dup, faults, stalls, dups, started, utx, events, replay, rcall>>

\* ------------------------------------------------------------------------
\* Catalog helpers
\* ------------------------------------------------------------------------
Present(cat, k) == k \in DOMAIN cat

\* free_dns_name.rs:39  existing.starts_with("__deleted_")
StartsWithDeleted(d) == Len(d) > 0 /\ d[1] = DeletedPrefix

\* free_dns_name.rs:47  CONCAT('__deleted_', dns_name)
ConcatDeleted(d) == <<DeletedPrefix>> \o d

\* predicate of the partial unique index idx_instances_dns_name_unique
DnsIndexed(d) == d # NULL /\ ~StartsWithDeleted(d)

\* variant: the index covers only rows in the states creating and running,
\* as the conflict query of create_instance_record.rs:68-81 does
UniqueViolationLiveOnly(cat, k, d) ==
    /\ DnsIndexed(d)
    /\ \E j \in DOMAIN cat \ {k} :
          cat[j].dns_name = d /\ cat[j].state \in {"creating", "running"}

\* create_instance_record.rs:60-62  error 23505 on idx_instances_dns_name_unique
UniqueViolation(cat, k, d) ==
    /\ DnsIndexed(d)
    /\ \E j \in DOMAIN cat \ {k} : cat[j].dns_name = d

Put(cat, k, row) == [j \in DOMAIN cat \cup {k} |-> IF j = k THEN row ELSE cat[j]]

Remove(cat, k) == [j \in DOMAIN cat \ {k} |-> cat[j]]

Ok(id) == [ok |-> TRUE, id |-> id, err |-> ""]
Err(e) == [ok |-> FALSE, id |-> 0, err |-> e]

\* create_instance_record.rs:64-111  the branch taken on a DNS conflict
DnsConflict(cat, d, orch) ==
    LET owners == {j \in DOMAIN cat : /\ cat[j].dns_name = d
                                      /\ ~StartsWithDeleted(cat[j].dns_name)
                                      /\ cat[j].state \in {"creating", "running"}}
    IN  IF d = NULL THEN Err("DnsMissing")
        ELSE IF owners = {} THEN Err("ConflictNotFound")
        ELSE LET j == CHOOSE j \in owners : TRUE
             IN  IF cat[j].owner = orch THEN Ok(cat[j].id) ELSE Err("DnsReserved")

NewRow(id, d, orch) ==
    [id |-> id, state |-> "creating", dns_name |-> d, owner |-> orch,
     conn |-> FALSE, actor |-> NULL, health |-> "unknown"]

\* variant: DO UPDATE has no WHERE on create_orchestration_id
CreateInstanceRecordAnyOwner(cat, nid, k, d, orch) ==
    IF UniqueViolation(cat, k, d)
    THEN [cat |-> cat, nid |-> nid, res |-> DnsConflict(cat, d, orch)]
    ELSE IF ~Present(cat, k)
    THEN [cat |-> Put(cat, k, NewRow(nid, d, orch)), nid |-> nid + 1, res |-> Ok(nid)]
    ELSE [cat |-> Put(cat, k, [cat[k] EXCEPT !.dns_name = d]), nid |-> nid,
          res |-> Ok(cat[k].id)]

\* create_instance_record.rs:23-118  INSERT .. ON CONFLICT (k8s_name) DO UPDATE
\* .. WHERE create_orchestration_id = EXCLUDED.create_orchestration_id
\* the row at k8s_name conflicts first: DO UPDATE rewrites dns_name (and the
\* columns the model does not keep) but not state, and only for the same
\* create_orchestration_id; the unique index on dns_name then decides
CreateInstanceRecord(cat, nid, k, d, orch) ==
    IF Present(cat, k) /\ cat[k].owner # orch
    THEN [cat |-> cat, nid |-> nid, res |-> Err("NoRecordReturned")]
    ELSE IF UniqueViolation(cat, k, d)
    THEN [cat |-> cat, nid |-> nid, res |-> DnsConflict(cat, d, orch)]
    ELSE IF ~Present(cat, k)
    THEN [cat |-> Put(cat, k, NewRow(nid, d, orch)), nid |-> nid + 1, res |-> Ok(nid)]
    ELSE [cat |-> Put(cat, k, [cat[k] EXCEPT !.dns_name = d]), nid |-> nid,
          res |-> Ok(cat[k].id)]

\* variant: the UPDATE is an upsert that inserts a missing row
UpdateInstanceStateUpsert(cat, k, state, conn) ==
    IF ~Present(cat, k)
    THEN [cat |-> Put(cat, k, [NewRow(0, NULL, NULL) EXCEPT !.state = state,
                                                            !.conn = conn]),
          updated |-> TRUE, previous_state |-> "none"]
    ELSE [cat |-> Put(cat, k, [cat[k] EXCEPT !.state = state,
                                             !.conn = conn \/ cat[k].conn]),
          updated |-> TRUE, previous_state |-> cat[k].state]

\* update_instance_state.rs:18-93; conn is TRUE when the input carries
\* connection strings (COALESCE keeps the stored ones otherwise)
UpdateInstanceState(cat, k, state, conn) ==
    IF ~Present(cat, k)
    THEN [cat |-> cat, updated |-> FALSE, previous_state |-> "none"]
    ELSE [cat |-> Put(cat, k, [cat[k] EXCEPT !.state = state,
                                             !.conn = conn \/ cat[k].conn]),
          updated |-> TRUE, previous_state |-> cat[k].state]

\* variant: the UPDATE has no `AND state = 'running'`
UpdateInstanceHealthAnyState(cat, k, status) ==
    IF Present(cat, k)
    THEN [cat |-> Put(cat, k, [cat[k] EXCEPT !.health = status]), updated |-> TRUE]
    ELSE [cat |-> cat, updated |-> FALSE]

\* update_instance_health.rs:16-32
UpdateInstanceHealth(cat, k, status) ==
    IF Present(cat, k) /\ cat[k].state = "running"
    THEN [cat |-> Put(cat, k, [cat[k] EXCEPT !.health = status]), updated |-> TRUE]
    ELSE [cat |-> cat, updated |-> FALSE]

\* record_instance_actor.rs:16-40
RecordInstanceActor(cat, k, actor) ==
    IF Present(cat, k)
    THEN [cat |-> Put(cat, k, [cat[k] EXCEPT !.actor = actor]), recorded |-> TRUE]
    ELSE [cat |-> cat, recorded |-> FALSE]

\* variant: the activity keeps the row
DeleteInstanceRecordSoft(cat, k) ==
    [cat |-> cat, deleted |-> Present(cat, k)]

\* delete_instance_record.rs:16-35
DeleteInstanceRecord(cat, k) ==
    [cat |-> Remove(cat, k), deleted |-> Present(cat, k)]

\* variant: the activity does not test for the __deleted_ prefix
FreeDnsWantedAnyName(cat, k) ==
    /\ Present(cat, k)
    /\ cat[k].dns_name # NULL

\* free_dns_name.rs:14-42  the SELECT and the three early returns: TRUE when
\* the activity goes on to its UPDATE
FreeDnsWanted(cat, k) ==
    /\ Present(cat, k)
    /\ cat[k].dns_name # NULL
    /\ ~StartsWithDeleted(cat[k].dns_name)

\* free_dns_name.rs:44-55  the UPDATE, on whatever the row holds by then
FreeDnsUpdate(cat, k) ==
    IF Present(cat, k)
    THEN Put(cat, k, [cat[k] EXCEPT !.dns_name = ConcatDeleted(cat[k].dns_name)])
    ELSE cat

\* variant: CMS:Lookup reports no actor id
LookupActorIdDropped(cat, k) == NULL

\* the actor id CMS:Lookup reports: the one CMS:Record Actor ID stamped on
\* the row.  GetInstanceByK8sNameOutput declares the field
\* (activity_types.rs:190-194) and delete_instance.rs:38 reads it, but the
\* activity's query does not select the column; the value is taken from the
\* workflow protocol (DeleteInstance step 1)
LookupActorId(cat, k) == IF Present(cat, k) THEN cat[k].actor ELSE NULL

\* get_instance_by_k8s_name.rs:13-47
GetInstanceByK8sName(cat, k) ==
    [found |-> Present(cat, k),
     instance_actor_orchestration_id |-> LookupActorId(cat, k)]

\* get_instance_connection.rs:22-53
GetInstanceConnection(cat, k) ==
    IF Present(cat, k)
    THEN [found |-> TRUE, has_conn |-> cat[k].conn, state |-> cat[k].state]
    ELSE [found |-> FALSE, has_conn |-> FALSE, state |-> "none"]

\* ------------------------------------------------------------------------
\* Cluster helpers
\* ------------------------------------------------------------------------
NoResources == [pvc |-> FALSE, sts |-> FALSE, svc |-> FALSE]

\* k8s_client.rs:16-28  check_resources_exist looks at the StatefulSet only
ResourcesExist(c) == c.sts

\* an activity outcome: TRUE = Ok, FALSE = Err (only while faults remain)
Outcomes == IF faults > 0 THEN {TRUE, FALSE} ELSE {TRUE}

Spend(ok) == faults' = IF ok THEN faults ELSE faults - 1

\* delete_instance.rs:95,136,154,174  trace_warn of an error that is not fatal
Warn(warned, ok, step) == IF ok THEN warned ELSE warned \cup {step}


\* variant: the activity creates the three resources whatever exists
DeployPostgresAlways(c) ==
    [c |-> [pvc |-> TRUE, sts |-> TRUE, svc |-> TRUE], ok |-> TRUE, created |-> TRUE]

\* deploy_postgres.rs:24-48 and 78-105: nothing is done when the StatefulSet
\* exists; otherwise PVC, StatefulSet and Service are created in this order
\* and creating one that already exists is an API error
DeployPostgres(c) ==
    IF ResourcesExist(c) THEN [c |-> c, ok |-> TRUE, created |-> FALSE]
    ELSE IF c.pvc THEN [c |-> c, ok |-> FALSE, created |-> FALSE]
    ELSE IF c.svc THEN [c |-> [pvc |-> TRUE, sts |-> TRUE, svc |-> TRUE],
                        ok |-> FALSE, created |-> FALSE]
    ELSE [c |-> [pvc |-> TRUE, sts |-> TRUE, svc |-> TRUE], ok |-> TRUE,
          created |-> TRUE]

\* deploy_postgres.rs:78-105 interrupted by an API error after `stage`
\* resources were created (0: none, 1: PVC, 2: PVC and StatefulSet)
DeployInterrupted(c, stage) ==
    IF ResourcesExist(c) \/ c.pvc \/ stage = 0 THEN c
    ELSE IF stage = 1 THEN [c EXCEPT !.pvc = TRUE]
    ELSE [c EXCEPT !.pvc = TRUE, !.sts = TRUE]

\* delete_postgres.rs:20-36 and 39-85: Service, StatefulSet, PVC are deleted
\* (404 ignored) only when the StatefulSet exists
DeletePostgres(c) ==
    IF ~ResourcesExist(c) THEN [c |-> c, deleted |-> FALSE]
    ELSE [c |-> NoResources, deleted |-> TRUE]

\* delete_postgres.rs:39-85 interrupted by an API error after `stage`
\* resources were deleted (0: none, 1: Service, 2: Service and StatefulSet)
DeleteInterrupted(c, stage) ==
    IF ~ResourcesExist(c) \/ stage = 0 THEN c
    ELSE IF stage = 1 THEN [c EXCEPT !.svc = FALSE]
    ELSE [c EXCEPT !.svc = FALSE, !.sts = FALSE]

Stages == 0 .. 2

\* ------------------------------------------------------------------------
\* Initial state
\* ------------------------------------------------------------------------
\* locals of delete_instance_orchestration: cms_record.found,
\* instance_actor_id, delete_output.deleted; raised: Raise Event returned Ok;
\* removed: CMS:Delete Record returned Ok and the row was absent after it;
\* warned: the steps whose error was logged with trace_warn; second: another
\* DeleteInstance for the same name had completed when this one started
NoDeleteLocals ==
    [found |-> FALSE, actor |-> NULL, deleted |-> FALSE, raised |-> FALSE,
     removed |-> FALSE, warned |-> {}, second |-> FALSE, freed |-> "none",
     log |-> <<>>]

NoActorLocals == [status |-> "unknown", updated |-> FALSE]

\* update_instance_state.rs:14-16  no transaction has begun
NoTx == [pc |-> "idle", k |-> "", state |-> "", id |-> 0, previous_state |-> ""]

\* workers executing CMS:Update State (duroxide.rs:38-40 starts the runtime
\* whose workers run the activities)
Workers == {"w1", "w2"}

\* CMS:Reserve Record has not been invoked
NoCall == [k8s_name |-> "", dns_name |-> NULL, orchestration_id |-> <<>>,
           res |-> Err("")]

\* no workflow is being replayed
NoReplay == [wf |-> "", h |-> <<>>]

\* nothing handed to the runtime yet, no transaction open, no event stored
ExtIdle ==
    /\ started = {}
    /\ utx = [w \in Workers |-> NoTx]
    /\ events = <<>>
    /\ replay = NoReplay
    /\ rcall = NoCall

\* what a CreateInstance execution has done: log, the steps it awaited, in
\* order; err, the error of create_instance_impl; msg, the message it passed
\* to CMS:Update State(failed); result, "ok" or the error it returned
NoCreateHistory ==
    [log |-> <<>>, err |-> "", msg |-> "", result |-> ""]

InitCore(f, s, n) ==
    /\ rows = [j \in {} |-> 0]
    /\ nextId = 1
    /\ k8s = [k \in Instances |-> NoResources]
    /\ cpc = [k \in Instances |-> "none"]
    /\ clabel = [k \in Instances |-> NULL]
    /\ cattempt = [k \in Instances |-> 0]
    /\ cid = [k \in Instances |-> 0]
    /\ chist = [k \in Instances |-> NoCreateHistory]
    /\ dpc = [d \in Deletes |-> "none"]
    /\ dloc = [d \in Deletes |-> NoDeleteLocals]
    /\ apc = [k \in Instances |-> "none"]
    /\ aloc = [k \in Instances |-> NoActorLocals]
    /\ aevent = [k \in Instances |-> FALSE]
    /\ dup = [k \in Instances |-> [ran |-> FALSE, res |-> Err("")]]
    /\ faults = f
    /\ stalls = s
    /\ dups = n

InitWith(f, s, n) == InitCore(f, s, n) /\ ExtIdle

Init == InitWith(MaxFaults, MaxStalls, MaxDups)

\* the same start over a catalog `cat` that earlier workflows left behind
InitOver(cat, nid, f, s, n) ==
    /\ rows = cat
    /\ nextId = nid
    /\ k8s = [k \in Instances |-> NoResources]
    /\ cpc = [k \in Instances |-> "none"]
    /\ clabel = [k \in Instances |-> NULL]
    /\ cattempt = [k \in Instances |-> 0]
    /\ cid = [k \in Instances |-> 0]
    /\ chist = [k \in Instances |-> NoCreateHistory]
    /\ dpc = [d \in Deletes |-> "none"]
    /\ dloc = [d \in Deletes |-> NoDeleteLocals]
    /\ apc = [k \in Instances |-> "none"]
    /\ aloc = [k \in Instances |-> NoActorLocals]
    /\ aevent = [k \in Instances |-> FALSE]
    /\ dup = [k \in Instances |-> [ran |-> FALSE, res |-> Err("")]]
    /\ faults = f
    /\ stalls = s
    /\ dups = n
    /\ ExtIdle

\* ------------------------------------------------------------------------
\* CreateInstance (create_instance.rs)
\* ------------------------------------------------------------------------
createVars == <<cpc, clabel, cattempt, cid, chist>>
deleteVars == <<dpc, dloc>>
actorVars == <<apc, aloc, aevent>>
extVars == <<started, utx, events, replay, rcall>>

\* api.rs:242-267  the client starts create-<k8s_name> with dns_label
StartCreate(k, d) ==
    /\ cpc[k] = "none"
    /\ cpc' = [cpc EXCEPT ![k] = "reserve"]
    /\ clabel' = [clabel EXCEPT ![k] = d]
    /\ UNCHANGED <<rows, nextId, k8s, cattempt, cid, chist, deleteVars, actorVars,
                   dup, faults, stalls, dups, extVars>>

\* variant: a failed CMS:Reserve Record enters the failure branch
AfterReserveCleanup(res) == IF res.ok THEN "deploy" ELSE "markFailed"

\* create_instance.rs:45-50  `.await?` on CMS:Reserve Record: an error is
\* returned at once, before create_instance_impl and outside its match
AfterReserve(res) == IF res.ok THEN "deploy" ELSE "failed"

\* create_instance.rs:33-50  CMS:Reserve Record
CreateReserve(k) ==
    /\ cpc[k] = "reserve"
    /\ \E ok \in Outcomes :
        /\ Spend(ok)
        /\ LET r == CreateInstanceRecord(rows, nextId, k, clabel[k], CreateId(k))
               res == IF ok THEN r.res ELSE Err("ActivityError")
           IN  /\ rows' = IF ok THEN r.cat ELSE rows
               /\ nextId' = IF ok THEN r.nid ELSE nextId
               /\ cid' = [cid EXCEPT ![k] = res.id]
               /\ cpc' = [cpc EXCEPT ![k] = AfterReserve(res)]
               /\ chist' = [chist EXCEPT ![k].log = Append(@, "reserve"),
                                         ![k].result = IF res.ok THEN "" ELSE res.err]
    /\ UNCHANGED <<k8s, clabel, cattempt, deleteVars, actorVars, dup, stalls, dups,
                   extVars>>

\* variant: a failed body goes on to start the actor
BodyFailedThenActor(k, e) ==
    /\ cpc' = [cpc EXCEPT ![k] = "startActor"]
    /\ chist' = [chist EXCEPT ![k].log = Append(@, e), ![k].err = e]

\* create_instance.rs:71-73  an error of create_instance_impl enters the
\* failure branch with that error
BodyFailed(k, e) ==
    /\ cpc' = [cpc EXCEPT ![k] = "markFailed"]
    /\ chist' = [chist EXCEPT ![k].log = Append(@, e), ![k].err = e]

\* the body awaited `step` and goes on to `next`
BodyStep(k, step, next) ==
    /\ cpc' = [cpc EXCEPT ![k] = next]
    /\ chist' = [chist EXCEPT ![k].log = Append(@, step)]

\* create_instance.rs:98-113  K8s Deploy
CreateDeploy(k) ==
    /\ cpc[k] = "deploy"
    /\ \E ok \in Outcomes, stage \in Stages :
        /\ Spend(ok)
        /\ LET r == DeployPostgres(k8s[k])
           IN  IF ok
               THEN /\ k8s' = [k8s EXCEPT ![k] = r.c]
                    /\ IF r.ok THEN BodyStep(k, "deploy", "probe")
                               ELSE BodyFailed(k, "deploy")
               ELSE /\ k8s' = [k8s EXCEPT ![k] = DeployInterrupted(k8s[k], stage)]
                    /\ BodyFailed(k, "deploy")
    /\ cattempt' = [cattempt EXCEPT ![k] = 1]
    /\ UNCHANGED <<rows, nextId, clabel, cid, deleteVars, actorVars, dup, stalls, dups,
                   extVars>>

\* variant: the loop waits once more after its last attempt
AfterNotReadyLate(attempt) == IF attempt > max_attempts THEN "timeout" ELSE "timer"

\* create_instance.rs:146-156  after a probe that answered is_ready=false:
\* the last attempt times out, any other waits 5 s first
AfterNotReady(attempt) == IF attempt >= max_attempts THEN "timeout" ELSE "timer"

\* create_instance.rs:129-133  the probe activity returns an error
CreateProbeError(k) ==
    /\ cpc[k] = "probe"
    /\ faults > 0
    /\ faults' = faults - 1
    /\ BodyFailed(k, "probe")
    /\ UNCHANGED <<rows, nextId, k8s, clabel, cattempt, cid, deleteVars, actorVars,
                   dup, stalls, dups, extVars>>

\* create_instance.rs:136-144  is_ready = true (wait_for_ready.rs:32-68: only
\* a pod that exists can be ready)
CreateProbeReady(k) ==
    /\ cpc[k] = "probe"
    /\ k8s[k].sts
    /\ BodyStep(k, "probe", "conn")
    /\ UNCHANGED <<rows, nextId, k8s, clabel, cattempt, cid, deleteVars, actorVars,
                   dup, faults, stalls, dups, extVars>>

\* create_instance.rs:146-154  is_ready = false
CreateProbeNotReady(k) ==
    /\ cpc[k] = "probe"
    /\ stalls > 0
    /\ stalls' = stalls - 1
    /\ IF AfterNotReady(cattempt[k]) = "timeout"
       THEN /\ cpc' = [cpc EXCEPT ![k] = "markFailed"]
            /\ chist' = [chist EXCEPT ![k].log = Append(@, "probe"),
                                      ![k].err = "timeout"]
       ELSE BodyStep(k, "probe", "timer")
    /\ UNCHANGED <<rows, nextId, k8s, clabel, cattempt, cid, deleteVars, actorVars,
                   dup, faults, dups, extVars>>

\* create_instance.rs:121-149  one Pod-Readiness Probe of the loop
CreateProbe(k) ==
    \/ CreateProbeError(k)
    \/ CreateProbeReady(k)
    \/ CreateProbeNotReady(k)

\* create_instance.rs:156  the 5 s timer between two probes
CreateTimer(k) ==
    /\ cpc[k] = "timer"
    /\ BodyStep(k, "timer", "probe")
    /\ cattempt' = [cattempt EXCEPT ![k] = cattempt[k] + 1]
    /\ UNCHANGED <<rows, nextId, k8s, clabel, cid, deleteVars, actorVars, dup,
                   faults, stalls, dups, extVars>>

\* create_instance.rs:165-187  Connection-String Build, as it ends after its
\* retry policy (get_connection_strings.rs:48-78 reads the Service)
CreateConn(k) ==
    /\ cpc[k] = "conn"
    /\ \E ok \in Outcomes :
        /\ Spend(ok)
        /\ IF ok /\ k8s[k].svc THEN BodyStep(k, "conn", "test")
                               ELSE BodyFailed(k, "conn")
    /\ UNCHANGED <<rows, nextId, k8s, clabel, cattempt, cid, deleteVars, actorVars,
                   dup, stalls, dups, extVars>>

\* create_instance.rs:191-213  TCP/SQL Probe, as it ends after its retry policy
CreateTest(k) ==
    /\ cpc[k] = "test"
    /\ \E ok \in Outcomes :
        /\ Spend(ok)
        /\ IF ok /\ k8s[k].sts THEN BodyStep(k, "test", "markRunning")
                               ELSE BodyFailed(k, "test")
    /\ UNCHANGED <<rows, nextId, k8s, clabel, cattempt, cid, deleteVars, actorVars,
                   dup, stalls, dups, extVars>>

\* create_instance.rs:263-277, 306-319, 322-349  a step of the workflow whose
\* error is logged and never returned: the step is awaited, then `next`
\* whatever it answered
LoggedStep(k, step, next) ==
    /\ cpc' = [cpc EXCEPT ![k] = next]
    /\ chist' = [chist EXCEPT ![k].log = Append(@, step)]

\* create_instance.rs:53-64 and 263-277  CMS:Update State(running); an error
\* is logged only
CreateMarkRunning(k) ==
    /\ cpc[k] = "markRunning"
    /\ \E ok \in Outcomes :
        /\ Spend(ok)
        /\ rows' = IF ok THEN UpdateInstanceState(rows, k, "running", TRUE).cat ELSE rows
        /\ LoggedStep(k, "markRunning", "startActor")
    /\ UNCHANGED <<nextId, k8s, clabel, cattempt, cid, deleteVars, actorVars, dup,
                   stalls, dups, extVars>>

\* variant: the actor is a sub-orchestration the workflow awaits
CreateStartActorAwaited(k) ==
    /\ cpc[k] = "startActor"
    /\ IF apc[k] = "none"
       THEN /\ apc' = [apc EXCEPT ![k] = "getConn"]
            /\ UNCHANGED createVars
       ELSE /\ apc[k] \in {"completed", "failed"}
            /\ LoggedStep(k, "startActor", "recordActor")
            /\ UNCHANGED <<clabel, cattempt, cid, apc>>
    /\ UNCHANGED <<rows, nextId, k8s, deleteVars, aloc, aevent, dup, faults,
                   stalls, dups, extVars>>

\* variant: the workflow goes on to CMS:Record Actor ID without scheduling
\* the actor
CreateStartActorSkipped(k) ==
    /\ cpc[k] = "startActor"
    /\ LoggedStep(k, "startActor", "recordActor")
    /\ UNCHANGED <<rows, nextId, k8s, clabel, cattempt, cid, deleteVars, actorVars,
                   dup, faults, stalls, dups, extVars>>

\* create_instance.rs:279-304  the detached InstanceActor is scheduled
CreateStartActor(k) ==
    /\ cpc[k] = "startActor"
    /\ LoggedStep(k, "startActor", "recordActor")
    /\ apc' = [apc EXCEPT ![k] = IF apc[k] = "none" THEN "getConn" ELSE apc[k]]
    /\ UNCHANGED <<rows, nextId, k8s, clabel, cattempt, cid, deleteVars, aloc, aevent,
                   dup, faults, stalls, dups, extVars>>

\* create_instance.rs:306-319 and 69  CMS:Record Actor ID; an error is logged
\* only; then Ok(output)
CreateRecordActor(k) ==
    /\ cpc[k] = "recordActor"
    /\ \E ok \in Outcomes :
        /\ Spend(ok)
        /\ rows' = IF ok THEN RecordInstanceActor(rows, k, ActorId(k)).cat ELSE rows
        /\ cpc' = [cpc EXCEPT ![k] = "done"]
        /\ chist' = [chist EXCEPT ![k].log = Append(@, "recordActor"),
                                  ![k].result = "ok"]
    /\ UNCHANGED <<nextId, k8s, clabel, cattempt, cid, deleteVars, actorVars, dup,
                   stalls, dups, extVars>>

\* create_instance.rs:328-333  the message of CMS:Update State(failed) is
\* error.to_string() of the body error
FailedMessage(e) == e

\* variant: an error of CMS:Update State(failed) skips CMS:Free DNS
AfterMarkFailedSkip(ok) == IF ok THEN "freeDns" ELSE "cleanup"

\* create_instance.rs:335-336  the activity's result is matched and dropped;
\* CMS:Free DNS follows either way
AfterMarkFailed(ok) == "freeDns"

\* create_instance.rs:322-336  CMS:Update State(failed); an error is logged only
CreateMarkFailed(k) ==
    /\ cpc[k] = "markFailed"
    /\ \E ok \in Outcomes :
        /\ Spend(ok)
        /\ rows' = IF ok THEN UpdateInstanceState(rows, k, "failed", FALSE).cat ELSE rows
        /\ cpc' = [cpc EXCEPT ![k] = AfterMarkFailed(ok)]
        /\ chist' = [chist EXCEPT ![k].log = Append(@, "markFailed"),
                                  ![k].msg = FailedMessage(chist[k].err)]
    /\ UNCHANGED <<nextId, k8s, clabel, cattempt, cid, deleteVars, actorVars, dup,
                   stalls, dups, extVars>>

\* create_instance.rs:338-349 with free_dns_name.rs:14-42  CMS:Free DNS up to
\* its UPDATE; an error is logged only
CreateFreeDns(k) ==
    /\ cpc[k] = "freeDns"
    /\ \E ok \in Outcomes :
        /\ Spend(ok)
        /\ LoggedStep(k, "freeDns",
                      IF ok /\ FreeDnsWanted(rows, k) THEN "freeDnsWrite" ELSE "cleanup")
    /\ UNCHANGED <<rows, nextId, k8s, clabel, cattempt, cid, deleteVars, actorVars,
                   dup, stalls, dups, extVars>>

\* free_dns_name.rs:44-58  the UPDATE of CMS:Free DNS
CreateFreeDnsWrite(k) ==
    /\ cpc[k] = "freeDnsWrite"
    /\ \E ok \in Outcomes :
        /\ Spend(ok)
        /\ rows' = IF ok THEN FreeDnsUpdate(rows, k) ELSE rows
    /\ cpc' = [cpc EXCEPT ![k] = "cleanup"]
    /\ UNCHANGED <<nextId, k8s, clabel, cattempt, cid, chist, deleteVars, actorVars, dup,
                   stalls, dups, extVars>>

\* create_instance.rs:230-252  the DeleteInstance sub-orchestration
\* cleanup-<k8s_name> is scheduled for input.name
CreateCleanup(k) ==
    /\ cpc[k] = "cleanup"
    /\ dpc[CleanupId(k)] = "none"
    /\ LoggedStep(k, "cleanup", "cleanupWait")
    /\ dpc' = [dpc EXCEPT ![CleanupId(k)] = "lookup"]
    /\ dloc' = [dloc EXCEPT ![CleanupId(k)].second = (dpc[DeleteId(k)] = "done")]
    /\ UNCHANGED <<rows, nextId, k8s, clabel, cattempt, cid, actorVars, dup,
                   faults, stalls, dups, extVars>>

\* variant: a failed cleanup replaces the error the workflow returns
ReturnedErrorOfCleanup(e, cleanupOk) == IF cleanupOk THEN e ELSE "cleanup"

\* create_instance.rs:76-82  whatever the sub-orchestration returned, Err(e)
\* of the body is what the workflow returns
ReturnedError(e, cleanupOk) == e

\* create_instance.rs:76-82  the sub-orchestration ended; its error is logged
\* only
CreateCleanupDone(k) ==
    /\ cpc[k] = "cleanupWait"
    /\ dpc[CleanupId(k)] \in {"done", "failed"}
    /\ cpc' = [cpc EXCEPT ![k] = "failed"]
    /\ LET cleanupOk == dpc[CleanupId(k)] = "done"
       IN  chist' = [chist EXCEPT
                       ![k].log = Append(@, "cleanupDone"),
                       ![k].result = ReturnedError(chist[k].err, cleanupOk)]
    /\ UNCHANGED <<rows, nextId, k8s, clabel, cattempt, cid, deleteVars, actorVars,
                   dup, faults, stalls, dups, extVars>>

\* a worker executes CMS:Reserve Record of create-<k> once more (activity
\* leases are at-least-once, duroxide.rs:38-40), whatever ran in between
DupReserve(k) ==
    /\ cpc[k] \notin {"none", "reserve"}
    /\ cid[k] # 0
    /\ dups > 0
    /\ dups' = dups - 1
    /\ LET r == CreateInstanceRecord(rows, nextId, k, clabel[k], CreateId(k))
       IN  /\ rows' = r.cat
           /\ nextId' = r.nid
           /\ dup' = [dup EXCEPT ![k] = [ran |-> TRUE, res |-> r.res]]
    /\ UNCHANGED <<k8s, createVars, deleteVars, actorVars, faults, stalls, extVars>>


\* ------------------------------------------------------------------------
\* DeleteInstance (delete_instance.rs); d = <<kind, k8s_name>>
\* ------------------------------------------------------------------------
\* api.rs:403-425  the client starts delete-<k8s_name> for a row it finds in
\* the catalog
StartDelete(k) ==
    /\ dpc[<<"delete", k>>] = "none"
    /\ Present(rows, k)
    /\ dpc' = [dpc EXCEPT ![<<"delete", k>>] = "lookup"]
    /\ dloc' = [dloc EXCEPT ![<<"delete", k>>].second = (dpc[<<"cleanup", k>>] = "done")]
    /\ UNCHANGED <<rows, nextId, k8s, createVars, actorVars, dup, faults,
                   stalls, dups, extVars>>

\* variant: a missing catalog record ends the workflow
AfterLookupStop(found) == IF found THEN "markDeleting" ELSE "done"

\* delete_instance.rs:40-53  `if cms_record.found` .. else best-effort cleanup
AfterLookup(found) == IF found THEN "markDeleting" ELSE "k8sDelete"

\* delete_instance.rs:26-53  CMS:Lookup; an error fails the workflow
DeleteLookup(d) ==
    /\ dpc[d] = "lookup"
    /\ \E ok \in Outcomes :
        /\ Spend(ok)
        /\ LET r == GetInstanceByK8sName(rows, d[2])
           IN  IF ok
               THEN /\ dloc' = [dloc EXCEPT ![d].found = r.found,
                                            ![d].actor = r.instance_actor_orchestration_id]
                    /\ dpc' = [dpc EXCEPT ![d] = AfterLookup(r.found)]
               ELSE /\ dpc' = [dpc EXCEPT ![d] = "failed"]
                    /\ UNCHANGED dloc
    /\ UNCHANGED <<rows, nextId, k8s, createVars, actorVars, dup, stalls, dups,
                   extVars>>

\* variant: an error of a best-effort step fails the workflow
AfterLoggedFatal(ok, next) == IF ok THEN next ELSE "failed"

\* delete_instance.rs:124-138, 90-96, 140-178  `if let Err(err) = .. { trace_warn }`:
\* the workflow goes on to the next step whatever the step returned
AfterLogged(ok, next) == next

\* delete_instance.rs:40-50 and 124-138  CMS:Update State(deleting); an error
\* is logged only
DeleteMarkDeleting(d) ==
    /\ dpc[d] = "markDeleting"
    /\ \E ok \in Outcomes :
        /\ Spend(ok)
        /\ dpc' = [dpc EXCEPT ![d] = AfterLogged(ok, "k8sDelete")]
        /\ rows' = IF ok THEN UpdateInstanceState(rows, d[2], "deleting", FALSE).cat
                         ELSE rows
        /\ dloc' = [dloc EXCEPT ![d].warned = Warn(dloc[d].warned, ok, "markDeleting"),
                                ![d].log = Append(@, "markDeleting")]
    /\ UNCHANGED <<nextId, k8s, createVars, actorVars, dup, stalls, dups, extVars>>

\* variant: the actor is never signalled
AfterK8sDeleteNoRaise(actor) == "markDeleted"

\* delete_instance.rs:77-78  `if let Some(actor_id) = instance_actor_id`
AfterK8sDelete(actor) == IF actor # NULL THEN "raise" ELSE "markDeleted"

\* delete_instance.rs:63-75  K8s Delete; an error fails the workflow
DeleteK8s(d) ==
    /\ dpc[d] = "k8sDelete"
    /\ \E ok \in Outcomes, stage \in Stages :
        /\ Spend(ok)
        /\ LET r == DeletePostgres(k8s[d[2]])
           IN  IF ok
               THEN /\ k8s' = [k8s EXCEPT ![d[2]] = r.c]
                    /\ dloc' = [dloc EXCEPT ![d].deleted = r.deleted,
                                            ![d].log = Append(@, "k8sDelete")]
                    /\ dpc' = [dpc EXCEPT ![d] = AfterK8sDelete(dloc[d].actor)]
               ELSE /\ k8s' = [k8s EXCEPT ![d[2]] = DeleteInterrupted(k8s[d[2]], stage)]
                    /\ dloc' = [dloc EXCEPT ![d].log = Append(@, "k8sDelete")]
                    /\ dpc' = [dpc EXCEPT ![d] = "failed"]
    /\ UNCHANGED <<rows, nextId, createVars, actorVars, dup, stalls, dups, extVars>>

\* delete_instance.rs:77-97 with raise_event.rs:27-49  Raise Event
\* InstanceDeleted to the captured actor id; an error is logged only
DeleteRaise(d) ==
    /\ dpc[d] = "raise"
    /\ \E ok \in Outcomes :
        /\ Spend(ok)
        /\ dpc' = [dpc EXCEPT ![d] = AfterLogged(ok, "markDeleted")]
        /\ aevent' = [k \in Instances |->
                        IF ok /\ dloc[d].actor = ActorId(k) THEN TRUE ELSE aevent[k]]
        /\ dloc' = [dloc EXCEPT ![d].raised = ok,
                                ![d].warned = Warn(dloc[d].warned, ok, "raise"),
                                ![d].log = Append(@, "raise")]
    /\ UNCHANGED <<rows, nextId, k8s, createVars, apc, aloc, dup, stalls, dups,
                   extVars>>

\* delete_instance.rs:99-109  CMS:Update State(deleted); an error is logged only
DeleteMarkDeleted(d) ==
    /\ dpc[d] = "markDeleted"
    /\ \E ok \in Outcomes :
        /\ Spend(ok)
        /\ dpc' = [dpc EXCEPT ![d] = AfterLogged(ok, "deleteRecord")]
        /\ rows' = IF ok THEN UpdateInstanceState(rows, d[2], "deleted", FALSE).cat
                         ELSE rows
        /\ dloc' = [dloc EXCEPT ![d].warned = Warn(dloc[d].warned, ok, "markDeleted"),
                                ![d].log = Append(@, "markDeleted")]
    /\ UNCHANGED <<nextId, k8s, createVars, actorVars, dup, stalls, dups, extVars>>

\* delete_instance.rs:111-113 and 158-178  CMS:Delete Record; an error is
\* logged only
DeleteRecord(d) ==
    /\ dpc[d] = "deleteRecord"
    /\ \E ok \in Outcomes :
        /\ Spend(ok)
        /\ dpc' = [dpc EXCEPT ![d] = AfterLogged(ok, "freeDns")]
        /\ rows' = IF ok THEN DeleteInstanceRecord(rows, d[2]).cat ELSE rows
        /\ dloc' = [dloc EXCEPT
                      ![d].removed = ok /\ ~Present(DeleteInstanceRecord(rows, d[2]).cat, d[2]),
                      ![d].warned = Warn(dloc[d].warned, ok, "deleteRecord"),
                      ![d].log = Append(@, "deleteRecord")]
    /\ UNCHANGED <<nextId, k8s, createVars, actorVars, dup, stalls, dups, extVars>>

\* delete_instance.rs:115 and 140-156 with free_dns_name.rs:14-42  CMS:Free DNS
\* up to its UPDATE; an error is logged only
DeleteFreeDns(d) ==
    /\ dpc[d] = "freeDns"
    /\ \E ok \in Outcomes :
        /\ Spend(ok)
        /\ dpc' = [dpc EXCEPT ![d] =
                     IF ok /\ FreeDnsWanted(rows, d[2]) THEN "freeDnsWrite" ELSE "done"]
        /\ dloc' = [dloc EXCEPT ![d].warned = Warn(dloc[d].warned, ok, "freeDns"),
                                ![d].log = Append(@, "freeDns"),
                                ![d].freed = IF ok /\ ~FreeDnsWanted(rows, d[2])
                                             THEN "false" ELSE @]
    /\ UNCHANGED <<rows, nextId, k8s, createVars, actorVars, dup, stalls, dups,
                   extVars>>

\* free_dns_name.rs:44-58  the UPDATE of CMS:Free DNS; then
\* delete_instance.rs:117-121 returns
DeleteFreeDnsWrite(d) ==
    /\ dpc[d] = "freeDnsWrite"
    /\ \E ok \in Outcomes :
        /\ Spend(ok)
        /\ rows' = IF ok THEN FreeDnsUpdate(rows, d[2]) ELSE rows
        /\ dloc' = [dloc EXCEPT ![d].warned = Warn(dloc[d].warned, ok, "freeDns"),
                                ![d].freed = IF ok THEN "true" ELSE @]
    /\ dpc' = [dpc EXCEPT ![d] = "done"]
    /\ UNCHANGED <<nextId, k8s, createVars, actorVars, dup, stalls, dups, extVars>>

\* ------------------------------------------------------------------------
\* InstanceActor (instance_actor.rs); one execution is one iteration
\* ------------------------------------------------------------------------
\* variant: the actor treats a missing row like a missing connection string
ActorAfterGetConnNoExit(r) ==
    IF ~r.found \/ ~r.has_conn THEN "timerNoConn" ELSE "probe"

\* variant: the actor polls the state and ends itself on deleting or deleted
ActorAfterGetConnPolling(r) ==
    IF ~r.found \/ r.state \in {"deleting", "deleted"} THEN "completed"
    ELSE IF ~r.has_conn THEN "timerNoConn"
    ELSE "probe"

\* instance_actor.rs:48-83  what the actor does with the output of CMS:Get
\* Connection: the states deleting and deleted are only logged
ActorAfterGetConn(r) ==
    IF ~r.found THEN "completed"
    ELSE IF ~r.has_conn THEN "timerNoConn"
    ELSE "probe"

\* instance_actor.rs:37-83  CMS:Get Connection; an error fails the actor
ActorGetConn(k) ==
    /\ apc[k] = "getConn"
    /\ \E ok \in Outcomes :
        /\ Spend(ok)
        /\ apc' = [apc EXCEPT ![k] =
                     IF ok THEN ActorAfterGetConn(GetInstanceConnection(rows, k))
                           ELSE "failed"]
    /\ aloc' = [aloc EXCEPT ![k] = NoActorLocals]
    /\ UNCHANGED <<rows, nextId, k8s, createVars, deleteVars, aevent, dup, stalls, dups,
                   extVars>>

\* instance_actor.rs:72-82  30 s timer, then continue-as-new
ActorTimerNoConn(k) ==
    /\ apc[k] = "timerNoConn"
    /\ apc' = [apc EXCEPT ![k] = "getConn"]
    /\ UNCHANGED <<rows, nextId, k8s, createVars, deleteVars, aloc, aevent, dup,
                   faults, stalls, dups, extVars>>

\* instance_actor.rs:85-113  TCP/SQL Probe; its error is the status unhealthy
ActorProbe(k) ==
    /\ apc[k] = "probe"
    /\ \E status \in {"healthy", "unhealthy"} :
        aloc' = [aloc EXCEPT ![k].status = status]
    /\ apc' = [apc EXCEPT ![k] = "recordHealth"]
    /\ UNCHANGED <<rows, nextId, k8s, createVars, deleteVars, aevent, dup, faults,
                   stalls, dups, extVars>>

\* instance_actor.rs:115-129  CMS:Record Health; an error fails the actor
ActorRecordHealth(k) ==
    /\ apc[k] = "recordHealth"
    /\ \E ok \in Outcomes :
        /\ Spend(ok)
        /\ apc' = [apc EXCEPT ![k] = IF ok THEN "updateHealth" ELSE "failed"]
    /\ UNCHANGED <<rows, nextId, k8s, createVars, deleteVars, aloc, aevent, dup,
                   stalls, dups, extVars>>

\* instance_actor.rs:131-142  CMS:Update Health; an error fails the actor
ActorUpdateHealth(k) ==
    /\ apc[k] = "updateHealth"
    /\ \E ok \in Outcomes :
        /\ Spend(ok)
        /\ LET r == UpdateInstanceHealth(rows, k, aloc[k].status)
           IN  /\ rows' = IF ok THEN r.cat ELSE rows
               /\ aloc' = [aloc EXCEPT ![k].updated = ok /\ r.updated]
        /\ apc' = [apc EXCEPT ![k] = IF ok THEN "timer" ELSE "failed"]
    /\ UNCHANGED <<nextId, k8s, createVars, deleteVars, aevent, dup, stalls, dups,
                   extVars>>

\* instance_actor.rs:146-160  30 s timer, then continue-as-new with the same
\* input: the next execution starts
ActorTimer(k) ==
    /\ apc[k] = "timer"
    /\ apc' = [apc EXCEPT ![k] = "getConn"]
    /\ UNCHANGED <<rows, nextId, k8s, createVars, deleteVars, aloc, aevent, dup,
                   faults, stalls, dups, extVars>>

\* ------------------------------------------------------------------------
\* Specification
\* ------------------------------------------------------------------------
CreateStep(k) ==
    \/ CreateReserve(k) \/ CreateDeploy(k) \/ CreateProbe(k) \/ CreateTimer(k)
    \/ CreateConn(k) \/ CreateTest(k) \/ CreateMarkRunning(k)
    \/ CreateStartActor(k) \/ CreateRecordActor(k) \/ CreateMarkFailed(k)
    \/ CreateFreeDns(k) \/ CreateFreeDnsWrite(k) \/ CreateCleanup(k)
    \/ CreateCleanupDone(k)

DeleteStep(d) ==
    \/ DeleteLookup(d) \/ DeleteMarkDeleting(d) \/ DeleteK8s(d) \/ DeleteRaise(d)
    \/ DeleteMarkDeleted(d) \/ DeleteRecord(d) \/ DeleteFreeDns(d)
    \/ DeleteFreeDnsWrite(d)

ActorStep(k) ==
    \/ ActorGetConn(k) \/ ActorTimerNoConn(k) \/ ActorProbe(k)
    \/ ActorRecordHealth(k) \/ ActorUpdateHealth(k) \/ ActorTimer(k)

FocusDeletes == {"delete", "cleanup"} \X Focus

Next ==
    \/ \E k \in Focus, d \in LabelChoices : StartCreate(k, d)
    \/ \E k \in Focus : CreateStep(k)
    \/ \E k \in Focus : DupReserve(k)
    \/ \E k \in Focus : StartDelete(k)
    \/ \E d \in FocusDeletes : DeleteStep(d)
    \/ \E k \in Focus : ActorStep(k)

Spec == Init /\ [][Next]_vars

\* ------------------------------------------------------------------------
\* The catalog alone: the CMS activities that write dns_name and state, run
\* in any order and on both instances, as concurrent CreateInstance and
\* DeleteInstance workflows (and duplicate activity executions) can issue
\* them.  dpc holds the CMS:Free DNS executions that are past their SELECT.
\* ------------------------------------------------------------------------
WrittenStates == {"running", "failed", "deleting", "deleted"}

\* create_instance_record.rs:12-119  CMS:Reserve Record for create-<k>
CmsReserve(k, d) ==
    /\ nextId <= MaxIds
    /\ LET r == CreateInstanceRecord(rows, nextId, k, d, CreateId(k))
       IN  /\ rows' = r.cat
           /\ nextId' = r.nid
    /\ UNCHANGED <<k8s, createVars, deleteVars, actorVars, dup, faults, stalls, dups,
                   extVars>>

\* update_instance_state.rs:11-95  CMS:Update State as the workflows call it
CmsUpdateState(k, state) ==
    /\ rows' = UpdateInstanceState(rows, k, state, state = "running").cat
    /\ UNCHANGED <<nextId, k8s, createVars, deleteVars, actorVars, dup, faults,
                   stalls, dups, extVars>>

\* delete_instance_record.rs:10-36  CMS:Delete Record
CmsDeleteRecord(k) ==
    /\ rows' = DeleteInstanceRecord(rows, k).cat
    /\ UNCHANGED <<nextId, k8s, createVars, deleteVars, actorVars, dup, faults,
                   stalls, dups, extVars>>

\* free_dns_name.rs:14-42  CMS:Free DNS up to its UPDATE
CmsFreeDnsSelect(d) ==
    /\ dpc[d] = "none"
    /\ FreeDnsWanted(rows, d[2])
    /\ dpc' = [dpc EXCEPT ![d] = "freeDnsWrite"]
    /\ UNCHANGED <<rows, nextId, k8s, createVars, dloc, actorVars, dup, faults,
                   stalls, dups, extVars>>

\* free_dns_name.rs:44-58  the UPDATE of CMS:Free DNS
CmsFreeDnsUpdate(d) ==
    /\ dpc[d] = "freeDnsWrite"
    /\ rows' = FreeDnsUpdate(rows, d[2])
    /\ dpc' = [dpc EXCEPT ![d] = "none"]
    /\ UNCHANGED <<nextId, k8s, createVars, dloc, actorVars, dup, faults, stalls,
                   dups, extVars>>

CmsInit == InitWith(0, 0, 0)

CmsNext ==
    \/ \E k \in Instances, d \in LabelChoices : CmsReserve(k, d)
    \/ \E k \in Instances, state \in WrittenStates : CmsUpdateState(k, state)
    \/ \E k \in Instances : CmsDeleteRecord(k)
    \/ \E d \in Deletes : CmsFreeDnsSelect(d)
    \/ \E d \in Deletes : CmsFreeDnsUpdate(d)

SpecCms == CmsInit /\ [][CmsNext]_vars

\* ------------------------------------------------------------------------
\* CMS:Free DNS applied twice in a row to one row: the last step of
\* cleanup-<k> followed by the last step of delete-<k>, over every catalog
\* the workflows can leave behind
\* ------------------------------------------------------------------------
RowStates == {"creating"} \cup WrittenStates

StoredNames == {NULL, <<"x">>, <<"y">>, ConcatDeleted(<<"x">>)}

RowIds == [a |-> 1, b |-> 2]

\* catalogs that satisfy idx_instances_dns_name_unique
Catalogs ==
    LET shapes == UNION {[S -> [state : RowStates, dns_name : StoredNames]] :
                           S \in SUBSET Instances}
        full(c) == [k \in DOMAIN c |->
                      [NewRow(RowIds[k], c[k].dns_name, CreateId(k))
                         EXCEPT !.state = c[k].state]]
    IN  {full(c) : c \in {c \in shapes :
            \A j, k \in DOMAIN c :
                j # k /\ DnsIndexed(c[j].dns_name) => c[j].dns_name # c[k].dns_name}}

\* delete_instance.rs:115  the first application starts
FreeDnsFirst(k) ==
    /\ dpc[CleanupId(k)] = "none"
    /\ dpc' = [dpc EXCEPT ![CleanupId(k)] = "freeDns"]
    /\ UNCHANGED <<rows, nextId, k8s, createVars, dloc, actorVars, dup, faults,
                   stalls, dups, extVars>>

\* delete_instance.rs:115  the second application starts when the first
\* has returned
FreeDnsSecond(k) ==
    /\ dpc[CleanupId(k)] = "done"
    /\ dpc[DeleteId(k)] = "none"
    /\ dpc' = [dpc EXCEPT ![DeleteId(k)] = "freeDns"]
    /\ UNCHANGED <<rows, nextId, k8s, createVars, dloc, actorVars, dup, faults,
                   stalls, dups, extVars>>

FreeInit == \E cat \in Catalogs : InitOver(cat, 3, 0, 0, 0)

FreeNext ==
    \/ \E k \in Focus : FreeDnsFirst(k)
    \/ \E k \in Focus : FreeDnsSecond(k)
    \/ \E k \in Focus, kind \in {"delete", "cleanup"} : DeleteFreeDns(<<kind, k>>)
    \/ \E k \in Focus, kind \in {"delete", "cleanup"} : DeleteFreeDnsWrite(<<kind, k>>)

SpecFree == FreeInit /\ [][FreeNext]_vars

\* ------------------------------------------------------------------------
\* The workflows of a second instance, started while the row of the first
\* holds dns_name x in any state, or has given it up
\* ------------------------------------------------------------------------
Others == Instances \ Focus

OthersDeletes == {"delete", "cleanup"} \X Others

HeldCatalogs ==
    {c \in Catalogs : /\ DOMAIN c = Focus
                      /\ \A k \in Focus :
                            c[k].dns_name \in {<<"x">>, ConcatDeleted(<<"x">>)}}

ConflictInit == \E cat \in HeldCatalogs : InitOver(cat, 3, FairFaults, MaxStalls, 0)

ConflictNext ==
    \/ \E k \in Others, d \in LabelChoices : StartCreate(k, d)
    \/ \E k \in Others : CreateStep(k)
    \/ \E k \in Others : StartDelete(k)
    \/ \E d \in OthersDeletes : DeleteStep(d)
    \/ \E k \in Others : ActorStep(k)

SpecConflict == ConflictInit /\ [][ConflictNext]_vars

\* ------------------------------------------------------------------------
\* CreateInstance when the pod never gets ready: every Pod-Readiness Probe
\* answers is_ready = false and no activity fails
\* ------------------------------------------------------------------------
StallInit == InitWith(0, max_attempts + MaxStalls, 0)

StallNext ==
    \/ \E k \in Focus, d \in LabelChoices : StartCreate(k, d)
    \/ \E k \in Focus : CreateReserve(k)
    \/ \E k \in Focus : CreateDeploy(k)
    \/ \E k \in Focus : CreateProbeNotReady(k)
    \/ \E k \in Focus : CreateTimer(k)
    \/ \E k \in Focus : CreateMarkFailed(k)
    \/ \E k \in Focus : CreateFreeDns(k)
    \/ \E k \in Focus : CreateFreeDnsWrite(k)
    \/ \E k \in Focus : CreateCleanup(k)
    \/ \E k \in Focus : CreateCleanupDone(k)
    \/ \E k \in Focus : DeleteLookup(CleanupId(k))
    \/ \E k \in Focus : DeleteMarkDeleting(CleanupId(k))
    \/ \E k \in Focus : DeleteK8s(CleanupId(k))
    \/ \E k \in Focus : DeleteMarkDeleted(CleanupId(k))
    \/ \E k \in Focus : DeleteRecord(CleanupId(k))
    \/ \E k \in Focus : DeleteFreeDns(CleanupId(k))

SpecStall == StallInit /\ [][StallNext]_vars

\* ------------------------------------------------------------------------
\* The workflows over a cluster that already holds resources of the name:
\* what an interrupted K8s Deploy or K8s Delete, or a completed K8s Deploy,
\* left behind
\* ------------------------------------------------------------------------
Clusters ==
    {NoResources,
     [pvc |-> TRUE, sts |-> FALSE, svc |-> FALSE],
     [pvc |-> TRUE, sts |-> TRUE, svc |-> FALSE],
     [pvc |-> TRUE, sts |-> TRUE, svc |-> TRUE]}

DeployInit ==
    /\ \E c \in Clusters : k8s = [k \in Instances |-> IF k \in Focus THEN c ELSE NoResources]
    /\ rows = [j \in {} |-> 0]
    /\ nextId = 1
    /\ cpc = [k \in Instances |-> "none"]
    /\ clabel = [k \in Instances |-> NULL]
    /\ cattempt = [k \in Instances |-> 0]
    /\ cid = [k \in Instances |-> 0]
    /\ chist = [k \in Instances |-> NoCreateHistory]
    /\ dpc = [d \in Deletes |-> "none"]
    /\ dloc = [d \in Deletes |-> NoDeleteLocals]
    /\ apc = [k \in Instances |-> "none"]
    /\ aloc = [k \in Instances |-> NoActorLocals]
    /\ aevent = [k \in Instances |-> FALSE]
    /\ dup = [k \in Instances |-> [ran |-> FALSE, res |-> Err("")]]
    /\ faults = FairFaults
    /\ stalls = MaxStalls
    /\ dups = 0
    /\ ExtIdle

DeployNext ==
    \/ \E k \in Focus, d \in LabelChoices : StartCreate(k, d)
    \/ \E k \in Focus : CreateReserve(k)
    \/ \E k \in Focus : CreateDeploy(k)
    \/ \E k \in Focus : CreateProbe(k)
    \/ \E k \in Focus : CreateTimer(k)
    \/ \E k \in Focus : CreateConn(k)
    \/ \E k \in Focus : CreateTest(k)
    \/ \E k \in Focus : CreateMarkRunning(k)
    \/ \E k \in Focus : CreateStartActor(k)
    \/ \E k \in Focus : CreateRecordActor(k)
    \/ \E k \in Focus : CreateMarkFailed(k)
    \/ \E k \in Focus : CreateFreeDns(k)
    \/ \E k \in Focus : CreateFreeDnsWrite(k)
    \/ \E k \in Focus : CreateCleanup(k)
    \/ \E k \in Focus : CreateCleanupDone(k)
    \/ \E k \in Focus : StartDelete(k)
    \/ \E d \in FocusDeletes : DeleteStep(d)
    \/ \E k \in Focus : ActorStep(k)

SpecDeploy == DeployInit /\ [][DeployNext]_vars

\* ------------------------------------------------------------------------
\* The workflows under fair scheduling: the runtime's dispatchers keep
\* executing every workflow that has a step to take (duroxide.rs:38-40)
\* ------------------------------------------------------------------------
Fairness ==
    /\ \A k \in Focus : WF_vars(CreateStep(k))
    /\ \A d \in FocusDeletes : WF_vars(DeleteStep(d))
    /\ \A k \in Focus : WF_vars(ActorStep(k))

FairInit == InitWith(FairFaults, MaxStalls, MaxDups)

FairSpec == FairInit /\ [][Next]_vars /\ Fairness

\* ------------------------------------------------------------------------
\* Properties
\* ------------------------------------------------------------------------
AllowedEdges ==
    {<<"creating", "running">>, <<"creating", "failed">>,
     <<"running", "deleting">>, <<"failed", "deleting">>,
     <<"deleting", "deleted">>}

\* the rows that exist before and after a step
Kept == DOMAIN rows \cap DOMAIN rows'

ActorRunning(k) ==
    apc[k] \in {"getConn", "timerNoConn", "probe", "recordHealth", "updateHealth",
                "timer"}

DeleteCompleted(k) == \E d \in Deletes : d[2] = k /\ dpc[d] = "done"

\* C1: under every interleaving of CMS:Reserve Record, CMS:Free DNS, CMS:Update
\* State and CMS:Delete Record, two different rows hold the same dns_name only
\* if that name begins with __deleted_.
DnsNameUnique ==
    \A j \in DOMAIN rows : \A k \in DOMAIN rows :
        (j # k /\ rows[j].dns_name # NULL /\ rows[j].dns_name = rows[k].dns_name)
            => StartsWithDeleted(rows[j].dns_name)

\* C1 case: a label freed on one row is reserved again by the other row
DnsNameReused ==
    /\ Present(rows, "a") /\ Present(rows, "b")
    /\ rows["a"].dns_name = ConcatDeleted(<<"x">>)
    /\ rows["b"].dns_name = <<"x">>

\* C2 as stated: every change of a row's state is one of the five edges
\* creating->running, creating->failed, running->deleting, failed->deleting,
\* deleting->deleted.
StateEdgesOnly ==
    [][\A k \in Kept :
         rows'[k].state # rows[k].state
             => <<rows[k].state, rows'[k].state>> \in AllowedEdges]_vars

\* C3 as stated: once a row's state is deleted, the state never changes; the
\* row can only be removed.
DeletedIsFinal ==
    [][\A k \in Kept : rows[k].state = "deleted" => rows'[k].state = "deleted"]_vars

EventEndsActor ==
    [][\A k \in Focus :
         (apc[k] = "timer" /\ aevent[k] /\ apc'[k] # apc[k])
             => apc'[k] = "completed"]_vars

\* C8: CMS:Update Health writes health_status when the row's state is running;
\* otherwise it leaves the catalog as it is and reports updated=false; nothing
\* else changes health_status.
UpdateHealthFrame ==
    [][\A k \in Focus :
         LET live == Present(rows, k) /\ rows[k].state = "running"
         IN  /\ (apc[k] = "updateHealth" /\ apc'[k] # apc[k] /\ ~live)
                    => (rows' = rows /\ ~aloc'[k].updated)
             /\ (apc[k] = "updateHealth" /\ apc'[k] = "timer" /\ live)
                    => /\ rows' = Put(rows, k, [rows[k] EXCEPT !.health = aloc[k].status])
                       /\ aloc'[k].updated
             /\ (k \in Kept /\ rows'[k].health # rows[k].health)
                    => (live /\ apc[k] = "updateHealth")]_vars

\* C8 case: the actor reported healthy on a row that is being deleted
HealthOfDeletingKept ==
    /\ apc["a"] = "timer" /\ aloc["a"].status = "healthy" /\ ~aloc["a"].updated
    /\ Present(rows, "a") /\ rows["a"].state = "deleting"
    /\ rows["a"].health = "unknown"

\* C9 as stated: a second execution of CMS:Reserve Record with the same input
\* returns the id of the first, adds no row and leaves the row's state and
\* dns_name as they were, whatever ran in between.
ReserveTwiceSame ==
    [][\A k \in Focus :
         dups' # dups
             => /\ dup'[k].res = Ok(cid[k])
                /\ DOMAIN rows' = DOMAIN rows
                /\ Present(rows, k)
                /\ rows'[k].state = rows[k].state
                /\ rows'[k].dns_name = rows[k].dns_name]_vars

FreeDnsTwice ==
    [][\A k \in Focus :
        /\ (dpc[CleanupId(k)] = "freeDns" /\ Present(rows, k)
              /\ DnsIndexed(rows[k].dns_name))
           => dpc'[CleanupId(k)] = "freeDnsWrite"
        /\ dpc[CleanupId(k)] = "freeDnsWrite" /\ dpc'[CleanupId(k)] = "done"
           => /\ dloc'[CleanupId(k)].freed = "true"
              /\ rows'[k].dns_name = ConcatDeleted(rows[k].dns_name)
        /\ (dloc[CleanupId(k)].freed = "true" /\ dpc[DeleteId(k)] = "freeDns"
              /\ dpc'[DeleteId(k)] # "freeDns")
           => /\ dpc'[DeleteId(k)] = "done"
              /\ dloc'[DeleteId(k)].freed = "false"
              /\ rows' = rows
              /\ rows[k].dns_name[2] # DeletedPrefix]_vars

FreedTwiceDone ==
    \E k \in Focus :
        /\ dloc[CleanupId(k)].freed = "true"
        /\ dloc[DeleteId(k)].freed = "false"
        /\ rows[k].dns_name = ConcatDeleted(<<"x">>)

\* a row of another orchestration in state creating or running holds the
\* dns_name that create-<k> asks for
HeldByOther(k) ==
    /\ DnsIndexed(clabel[k])
    /\ \E j \in DOMAIN rows \ {k} :
          /\ rows[j].dns_name = clabel[k]
          /\ rows[j].state \in {"creating", "running"}
          /\ rows[j].owner # CreateId(k)

\* C12: when CMS:Reserve Record fails because a row of another orchestration
\* in state creating or running holds the dns_name, CreateInstance fails with
\* that error at once: no retry, no row inserted or changed, no K8s Deploy, no
\* cleanup step
ConflictFailsAtOnce ==
    /\ [][\A k \in Others :
            (cpc[k] = "reserve" /\ cpc'[k] # "reserve" /\ HeldByOther(k)
               /\ faults' = faults /\ ~Present(rows, k))
            => /\ chist'[k].result = "DnsReserved"
               /\ cpc'[k] = "failed"
               /\ rows' = rows /\ nextId' = nextId /\ k8s' = k8s /\ dpc' = dpc]_vars
    /\ [](\A k \in Others :
            chist[k].result = "DnsReserved"
            => /\ cpc[k] = "failed"
               /\ chist[k].log = <<"reserve">>
               /\ ~Present(rows, k)
               /\ k8s[k] = NoResources
               /\ dpc[CleanupId(k)] = "none")

ConflictReported == \E k \in Others : chist[k].result = "DnsReserved"

\* how often CreateInstance awaited `step`
Count(log, step) == Cardinality({i \in DOMAIN log : log[i] = step})

\* probes and timers alternate in the log, a probe first
Interleaved(log) ==
    \A i \in DOMAIN log :
        /\ log[i] = "timer" => i > 1 /\ log[i - 1] = "probe"
        /\ (log[i] = "probe" /\ i > 1 /\ log[i - 1] # "deploy") => log[i - 1] = "timer"

\* C13 as stated: with a pod that is never ready CreateInstance makes exactly
\* 60 probes and exactly 60 timer waits before it fails
SixtyProbesSixtyTimers ==
    \A k \in Focus :
        chist[k].err = "timeout"
        => /\ Count(chist[k].log, "probe") = max_attempts
           /\ Count(chist[k].log, "timer") = max_attempts

\* C13: with a pod that is never ready CreateInstance makes exactly 60 probes
\* with exactly 59 five-second timer waits between them, then its body fails
\* with the timeout and the workflow takes the failure branch
SixtyProbesOneTimerLess ==
    \A k \in Focus :
        /\ Count(chist[k].log, "probe") <= max_attempts
        /\ Interleaved(chist[k].log)
        /\ cpc[k] # "done"
        /\ Count(chist[k].log, "probe") = max_attempts
           => /\ chist[k].err = "timeout"
              /\ cpc[k] \notin {"probe", "timer"}
        /\ chist[k].err = "timeout"
           => /\ Count(chist[k].log, "probe") = max_attempts
              /\ Count(chist[k].log, "timer") = max_attempts - 1
        /\ cpc[k] = "failed" /\ chist[k].log # <<"reserve">>
           => chist[k].result = "timeout"

TimedOut == \E k \in Focus : cpc[k] = "failed" /\ chist[k].result = "timeout"

CleanupSteps == <<"markFailed", "freeDns", "cleanup", "cleanupDone">>

BodySteps == {"reserve", "deploy", "probe", "timer", "conn", "test"}

\* the log is body steps followed by the first n cleanup steps
BodyThenCleanup(log, n) ==
    /\ Len(log) >= n
    /\ \A i \in 1..(Len(log) - n) : log[i] \in BodySteps
    /\ \A i \in 1..n : log[Len(log) - n + i] = CleanupSteps[i]

\* C15: after any failure of the CreateInstance body the workflow awaits, in
\* this order, CMS:Update State(failed), CMS:Free DNS and the DeleteInstance
\* sub-orchestration of the same k8s_name, and fails only when the
\* sub-orchestration has ended; no step is skipped when an earlier one failed,
\* and none of them runs while the body has not failed
CleanupInOrder ==
    \A k \in Focus :
        /\ chist[k].err = ""
           => /\ \A i \in DOMAIN chist[k].log : chist[k].log[i] \notin
                    {CleanupSteps[j] : j \in DOMAIN CleanupSteps}
              /\ dpc[CleanupId(k)] = "none"
        /\ chist[k].err # ""
           => \E n \in 0..4 :
                /\ BodyThenCleanup(chist[k].log, n)
                /\ cpc[k] \in CASE n = 0 -> {"markFailed"}
                                [] n = 1 -> {"freeDns"}
                                [] n = 2 -> {"freeDnsWrite", "cleanup"}
                                [] n = 3 -> {"cleanupWait"}
                                [] n = 4 -> {"failed"}
                /\ n < 3 => dpc[CleanupId(k)] = "none"
                /\ n = 4 => dpc[CleanupId(k)] \in {"done", "failed"}

\* CMS:Update State(failed) returned an error (the row is still creating),
\* CMS:Free DNS ran and the sub-orchestration is under way
CleanupWentOnAfterError ==
    \E k \in Focus :
        /\ cpc[k] = "cleanupWait" /\ chist[k].err # ""
        /\ Present(rows, k) /\ rows[k].state = "creating" /\ ~dup[k].ran
        /\ dpc[DeleteId(k)] = "none"
        /\ dpc[CleanupId(k)] = "lookup"

BodyErrors == {"deploy", "probe", "timeout", "conn", "test"}

\* C16: a CreateInstance whose body failed returns the error of the body,
\* also when its cleanup failed, and that error is the message it passed to
\* CMS:Update State(failed)
ReturnsBodyError ==
    \A k \in Focus :
        /\ chist[k].msg # "" => chist[k].msg = chist[k].err
        /\ chist[k].err # ""
           => /\ chist[k].err \in BodyErrors
              /\ chist[k].err = "timeout" \/
                   chist[k].log[CHOOSE i \in DOMAIN chist[k].log :
                                    /\ chist[k].log[i] \notin {"reserve", "timer"}
                                    /\ \A j \in DOMAIN chist[k].log :
                                          j > i => chist[k].log[j] \notin BodySteps]
                   = chist[k].err
              /\ cpc[k] \notin {"markFailed"} => chist[k].msg = chist[k].err
              /\ cpc[k] = "failed" => chist[k].result = chist[k].err
              /\ cpc[k] # "failed" => chist[k].result = ""

BodyErrorAfterFailedCleanup ==
    \E k \in Focus :
        /\ cpc[k] = "failed"
        /\ dpc[CleanupId(k)] = "failed"
        /\ chist[k].result = "test"
        /\ chist[k].msg = "test"

NoDeleteRan(k) == dpc[DeleteId(k)] = "none" /\ dpc[CleanupId(k)] = "none"

ActorStartedInOrder ==
    \A k \in Focus :
        LET log == chist[k].log
        IN  /\ apc[k] # "none" <=> \E i \in DOMAIN log : log[i] = "startActor"
            /\ \A i \in DOMAIN log :
                  log[i] = "startActor"
                  => /\ i > 2 /\ log[i - 1] = "markRunning" /\ log[i - 2] = "test"
                     /\ chist[k].err = ""
            /\ \A i \in DOMAIN log :
                  log[i] = "recordActor"
                  => i > 1 /\ log[i - 1] = "startActor" /\ i = Len(log)
            /\ cpc[k] = "done" <=> (log # <<>> /\ log[Len(log)] = "recordActor")
            /\ (chist[k].err # "" \/ cpc[k] = "failed") => apc[k] = "none"

ActorStartedNotYetRecorded ==
    \E k \in Focus :
        /\ cpc[k] = "recordActor"
        /\ apc[k] # "none"
        /\ Present(rows, k) /\ rows[k].state = "running" /\ rows[k].actor = NULL

DeleteSteps ==
    <<"markDeleting", "k8sDelete", "raise", "markDeleted", "deleteRecord", "freeDns">>

InvokedK8sDelete(d) == \E i \in DOMAIN dloc[d].log : dloc[d].log[i] = "k8sDelete"

DeletedIffAnyExisted ==
    [][\A d \in FocusDeletes :
        (dpc[d] = "k8sDelete" /\ dpc'[d] \notin {"k8sDelete", "failed"})
        => (dloc'[d].deleted
              <=> (k8s[d[2]].svc \/ k8s[d[2]].sts \/ k8s[d[2]].pvc))]_vars

\* C24: K8s Deploy invoked while the StatefulSet of the name exists creates
\* and changes no cluster resource and answers created = false, and the
\* workflow goes on to the readiness probe
DeployOnExistingIsNoOp ==
    [][\A k \in Focus :
        (cpc[k] = "deploy" /\ cpc'[k] # "deploy" /\ k8s[k].sts /\ faults' = faults)
        => /\ k8s' = k8s
           /\ ~DeployPostgres(k8s[k]).created
           /\ DeployPostgres(k8s[k]).ok
           /\ cpc'[k] = "probe"]_vars

DeployedOnExisting ==
    \E k \in Focus :
        /\ cpc[k] = "probe"
        /\ chist[k].log = <<"reserve", "deploy">>
        /\ k8s[k] = [pvc |-> TRUE, sts |-> TRUE, svc |-> FALSE]

\* ------------------------------------------------------------------------
\* Workflow instances handed to the runtime
\* ------------------------------------------------------------------------
UserNames == {"a"}
Suffixes == {"g1", "g2"}
MaxStarted == 4

\* api.rs:243  main.rs:480  format!("{}-{}", name, suffix), as the sequence
\* of its parts between hyphens
K8sName(name, suffix) == <<name, suffix>>

K8sNames == {K8sName(n, s) : n \in UserNames, s \in Suffixes}

\* format!("create-{}", ..), format!("delete-{}", ..), format!("actor-{}", ..),
\* format!("cleanup-{}", ..)
Prefixed(prefix, k8s_name) == <<prefix>> \o k8s_name

\* a workflow instance: the id it runs under, the orchestration and its input
StartedInstance(id, orch, k8s_name, input_id) ==
    [instance |-> id, name |-> orch, k8s_name |-> k8s_name,
     orchestration_id |-> input_id]

StartedIds == {r.instance : r \in started}

Start(r) ==
    /\ Cardinality(started) < MaxStarted
    /\ r \notin started
    /\ started' = started \cup {r}
    /\ UNCHANGED <<rows, nextId, k8s, createVars, deleteVars, actorVars, dup,
                   faults, stalls, dups, utx, events, replay, rcall>>

\* api.rs:242-267  POST /api/instances
ApiCreateInstance(name, suffix) ==
    LET k8s_name == K8sName(name, suffix)
        orchestration_id == Prefixed("create", k8s_name)
    IN  /\ orchestration_id \notin StartedIds
        /\ Start(StartedInstance(orchestration_id, "CreateInstance", k8s_name,
                                 orchestration_id))

\* main.rs:486-505  toygres create
CliCreateInstance(name, suffix) ==
    LET unique_instance_name == K8sName(name, suffix)
        instance_id == Prefixed("create", unique_instance_name)
    IN  /\ instance_id \notin StartedIds
        /\ Start(StartedInstance(instance_id, "CreateInstance",
                                 unique_instance_name, instance_id))

\* api.rs:494-515  DELETE /api/instances/:name (api.rs:413-433 in bulk)
ApiDeleteInstance(k8s_name) ==
    LET orchestration_id == Prefixed("delete", k8s_name)
    IN  Start(StartedInstance(orchestration_id, "DeleteInstance", k8s_name,
                              orchestration_id))

\* main.rs:547-560  toygres delete
CliDeleteInstance(k8s_name) ==
    LET instance_id == Prefixed("delete", k8s_name)
    IN  Start(StartedInstance(instance_id, "DeleteInstance", k8s_name, instance_id))

\* create_instance.rs:286-302  start_instance_actor, by a running CreateInstance
StartInstanceActor(c) ==
    /\ c \in started
    /\ c.name = "CreateInstance"
    /\ LET actor_id == Prefixed("actor", c.k8s_name)
       IN  Start(StartedInstance(actor_id, "InstanceActor", c.k8s_name, actor_id))

\* create_instance.rs:245-249  schedule_sub_orchestration_typed is given the
\* orchestration's name and its input and no instance id: the child runs
\* under an id the runtime derives from its parent's
ChildInstance(parent) == parent \o <<"sub">>

\* create_instance.rs:230-262  cleanup_on_failure, by a running CreateInstance
CleanupOnFailure(c) ==
    /\ c \in started
    /\ c.name = "CreateInstance"
    /\ Start(StartedInstance(ChildInstance(c.instance), "DeleteInstance",
                             c.k8s_name, Prefixed("cleanup", c.k8s_name)))

\* api.rs:771-784  the new id keeps the first part of the old one, then its
\* middle parts joined by hyphens, then the new suffix
RecreatedId(id, new_suffix) ==
    IF Len(id) >= 2
    THEN LET name_parts == SubSeq(id, 2, Len(id) - 1)
         IN  <<id[1]>> \o (IF name_parts = <<>> THEN <<"">> ELSE name_parts)
                 \o <<new_suffix>>
    ELSE id \o <<"recreate", new_suffix>>

\* api.rs:727-803  POST /api/server/orchestrations/:id/recreate starts the
\* orchestration of instance id again, with the input of its history
RecreateOrchestration(r, new_suffix) ==
    /\ r \in started
    /\ LET new_id == RecreatedId(r.instance, new_suffix)
       IN  /\ new_id \notin StartedIds
           /\ Start(StartedInstance(new_id, r.name, r.k8s_name, r.orchestration_id))

StartNext ==
    \/ \E n \in UserNames, s \in Suffixes : ApiCreateInstance(n, s)
    \/ \E n \in UserNames, s \in Suffixes : CliCreateInstance(n, s)
    \/ \E k \in K8sNames : ApiDeleteInstance(k)
    \/ \E k \in K8sNames : CliDeleteInstance(k)
    \/ \E c \in started : StartInstanceActor(c)
    \/ \E c \in started : CleanupOnFailure(c)
    \/ \E r \in started, s \in Suffixes : RecreateOrchestration(r, s)

SpecStart == InitWith(0, 0, 0) /\ [][StartNext]_vars

\* C26 as stated: every workflow instance the system starts carries in its
\* input an orchestration_id equal to the instance id it runs under.
OrchestrationIdIsInstanceId ==
    \A r \in started : r.orchestration_id = r.instance

\* ------------------------------------------------------------------------
\* Replay of the workflow functions against a recorded history
\* ------------------------------------------------------------------------
Workflows == {"CreateInstance", "DeleteInstance", "InstanceActor"}

\* values ctx.utcnow() recorded in the history
Times == {1, 2}

\* wall clocks of two workers that replay: what each reads at the point of
\* the replay where the history holds the time t
Clocks == {[t \in Times |-> t + 6], [t \in Times |-> 4 * t]}

\* a scheduling call of the OrchestrationContext
Call(kind, name, args, num) == [kind |-> kind, name |-> name, args |-> args, num |-> num]

\* a recorded completion or failure
Result(ok, out, num) == [ok |-> ok, out |-> out, num |-> num]

Unit == Result(TRUE, <<>>, 0)
Failure == Result(FALSE, <<"error">>, 0)
Fired == Result(TRUE, <<"fired">>, 0)

\* locals of a workflow function
NoLocals ==
    [start |-> 0, time |-> 0, attempt |-> 1, ip |-> "", dns |-> "", version |-> "",
     err |-> <<>>, status |-> "", error |-> <<>>, actor |-> "", deleted |-> ""]

At(pc, loc) == [pc |-> pc, loc |-> loc]

\* variant: the time is read from the worker's clock, not from the history
TimeReadWallClock(r, clock) == clock[r.num]

\* create_instance.rs:95, instance_actor.rs:86  ctx.utcnow() resolves to the
\* value recorded in the history
TimeRead(r, clock) == r.num

\* create_instance.rs:19-85, 87-228, 230-345 with input name "a", dns_label
\* "x", orchestration_id "create-a": the call scheduled at each await
CreateCall(pc, loc) ==
    CASE pc = "reserve" ->
            Call("activity", "CREATE_INSTANCE_RECORD", <<"a", "x", "create-a">>, 0)
      [] pc \in {"startTime", "readyTime", "endTime"} -> Call("utcnow", "", <<>>, 0)
      [] pc = "deploy" -> Call("activity", "DEPLOY_POSTGRES", <<"a", "x">>, 0)
      [] pc = "wait" -> Call("activity", "WAIT_FOR_READY", <<"a">>, 0)
      [] pc = "timer" -> Call("timer", "", <<>>, 5)
      [] pc = "conn" ->
            Call("retry_activity", "GET_CONNECTION_STRINGS", <<"a", "x">>, 0)
      [] pc = "test" ->
            Call("retry_activity", "TEST_CONNECTION",
                 <<IF loc.dns # "" THEN loc.dns ELSE loc.ip>>, 0)
      [] pc = "markRunning" ->
            Call("activity", "UPDATE_INSTANCE_STATE",
                 <<"a", "running", loc.ip, loc.dns, "Instance ready in">>, loc.time)
      [] pc = "startActor" ->
            Call("orchestration", "INSTANCE_ACTOR", <<"actor-a", "a", "actor-a">>, 0)
      [] pc = "recordActor" ->
            Call("activity", "RECORD_INSTANCE_ACTOR", <<"a", "actor-a">>, 0)
      [] pc = "markFailed" ->
            Call("activity", "UPDATE_INSTANCE_STATE", <<"a", "failed">> \o loc.err, 0)
      [] pc = "freeDns" -> Call("activity", "FREE_DNS_NAME", <<"a">>, 0)
      [] pc = "cleanup" ->
            Call("sub_orchestration", "DELETE_INSTANCE", <<"a", "cleanup-a">>, 0)

\* create_instance.rs:72-82  Err(e): mark failed, free the name, clean up
CreateFailed(loc, e) == At("markFailed", [loc EXCEPT !.err = e])

\* create_instance.rs:19-85, 87-228: where the function goes on after the
\* result r of the call awaited at pc
CreateAfter(pc, loc, r, clock) ==
    CASE pc = "reserve" -> IF r.ok THEN At("startTime", loc) ELSE At("return", loc)
      [] pc = "startTime" ->
            IF r.ok THEN At("deploy", [loc EXCEPT !.start = TimeRead(r, clock)])
            ELSE CreateFailed(loc, <<"Failed to get start time">> \o r.out)
      [] pc = "deploy" -> IF r.ok THEN At("wait", loc) ELSE CreateFailed(loc, r.out)
      [] pc = "wait" ->
            IF ~r.ok THEN CreateFailed(loc, <<"Failed to check pod status">> \o r.out)
            ELSE IF r.out = <<"ready">> THEN At("readyTime", loc)
            ELSE IF loc.attempt >= max_attempts
                 THEN CreateFailed(loc, <<"Timeout">> \o r.out)
                 ELSE At("timer", loc)
      [] pc = "timer" -> At("wait", [loc EXCEPT !.attempt = @ + 1])
      [] pc = "readyTime" ->
            IF ~r.ok THEN CreateFailed(loc, <<"Failed to get end time">> \o r.out)
            ELSE IF TimeRead(r, clock) < loc.start
                 THEN CreateFailed(loc, <<"Failed to calculate duration">>)
                 ELSE At("endTime", loc)
      [] pc = "endTime" ->
            IF ~r.ok THEN CreateFailed(loc, <<"Failed to get end time">> \o r.out)
            ELSE IF TimeRead(r, clock) < loc.start
                 THEN CreateFailed(loc, <<"Failed to calculate duration">>)
                 ELSE At("conn", [loc EXCEPT !.time = TimeRead(r, clock) - loc.start])
      [] pc = "conn" ->
            IF r.ok THEN At("test", [loc EXCEPT !.ip = r.out[1], !.dns = r.out[2]])
            ELSE CreateFailed(loc, r.out)
      [] pc = "test" ->
            IF r.ok THEN At("markRunning", [loc EXCEPT !.version = r.out[1]])
            ELSE CreateFailed(loc, r.out)
      [] pc = "markRunning" -> At("startActor", loc)
      [] pc = "startActor" -> At("recordActor", loc)
      [] pc = "recordActor" -> At("return", loc)
      [] pc = "markFailed" -> At("freeDns", loc)
      [] pc = "freeDns" -> At("cleanup", loc)
      [] pc = "cleanup" -> At("return", loc)

\* delete_instance.rs:15-122, 124-172 with input name "a", orchestration_id
\* "delete-a"
DeleteCall(pc, loc) ==
    CASE pc = "lookup" -> Call("activity", "GET_INSTANCE_BY_K8S_NAME", <<"a">>, 0)
      [] pc = "markDeleting" ->
            Call("activity", "UPDATE_INSTANCE_STATE",
                 <<"a", "deleting", "delete-a", "Deletion requested">>, 0)
      [] pc = "k8sDelete" -> Call("activity", "DELETE_POSTGRES", <<"a">>, 0)
      [] pc = "raise" ->
            Call("activity", "RAISE_EVENT", <<loc.actor, "InstanceDeleted", "{}">>, 0)
      [] pc = "markDeleted" ->
            Call("activity", "UPDATE_INSTANCE_STATE",
                 <<"a", "deleted", "delete-a", "Deleted (resources deleted:",
                   loc.deleted>>, 0)
      [] pc = "deleteRecord" -> Call("activity", "DELETE_INSTANCE_RECORD", <<"a">>, 0)
      [] pc = "freeDns" -> Call("activity", "FREE_DNS_NAME", <<"a">>, 0)

\* delete_instance.rs:15-122
DeleteAfter(pc, loc, r, clock) ==
    CASE pc = "lookup" ->
            IF ~r.ok THEN At("return", loc)
            ELSE At(AfterLookup(r.out[1] = "found"), [loc EXCEPT !.actor = r.out[2]])
      [] pc = "markDeleting" -> At("k8sDelete", loc)
      [] pc = "k8sDelete" ->
            IF ~r.ok THEN At("return", loc)
            ELSE At(IF loc.actor # "" THEN "raise" ELSE "markDeleted",
                    [loc EXCEPT !.deleted = r.out[1]])
      [] pc = "raise" -> At("markDeleted", loc)
      [] pc = "markDeleted" -> At("deleteRecord", loc)
      [] pc = "deleteRecord" -> At("freeDns", loc)
      [] pc = "freeDns" -> At("return", loc)

\* instance_actor.rs:27-30  input: k8s_name, orchestration_id
ActorInput == <<"a", "actor-a">>

\* variant: the next execution is given another orchestration_id
ContinuedInputFresh(input) == <<input[1], "actor-new">>

\* instance_actor.rs:152-155  serde_json::to_string(&input), continue_as_new
ContinuedInput(input) == input

\* variant: the probe's error is not looked at
HealthStatusAlwaysHealthy(ok) == "healthy"

\* instance_actor.rs:104-113  Ok(output) => "healthy", Err(e) => "unhealthy"
HealthStatus(ok) == IF ok THEN "healthy" ELSE "unhealthy"

\* instance_actor.rs:27-160 with input k8s_name "a", orchestration_id "actor-a"
ActorCall(pc, loc) ==
    CASE pc = "getConn" -> Call("activity", "GET_INSTANCE_CONNECTION", <<"a">>, 0)
      [] pc \in {"idleTimer", "timer"} -> Call("timer", "", <<>>, 30000)
      [] pc = "continueAsNew" ->
            Call("continue_as_new", "", ContinuedInput(ActorInput), 0)
      [] pc \in {"startTime", "endTime"} -> Call("utcnow", "", <<>>, 0)
      [] pc = "test" -> Call("activity", "TEST_CONNECTION", <<loc.ip>>, 0)
      [] pc = "recordHealth" ->
            Call("activity", "RECORD_HEALTH_CHECK",
                 <<"a", loc.status, loc.version>> \o loc.error, loc.time)
      [] pc = "updateHealth" ->
            Call("activity", "UPDATE_INSTANCE_HEALTH", <<"a", loc.status>>, 0)

\* instance_actor.rs:27-160
ActorAfter(pc, loc, r, clock) ==
    CASE pc = "getConn" ->
            IF ~r.ok \/ r.out[1] # "found" THEN At("return", loc)
            ELSE IF r.out[2] = "" THEN At("idleTimer", loc)
            ELSE At("startTime", [loc EXCEPT !.ip = r.out[2]])
      [] pc = "idleTimer" -> At("continueAsNew", loc)
      [] pc = "continueAsNew" -> At("return", loc)
      [] pc = "startTime" ->
            IF r.ok THEN At("test", [loc EXCEPT !.start = TimeRead(r, clock)])
            ELSE At("return", loc)
      [] pc = "test" ->
            IF r.ok
            THEN At("endTime", [loc EXCEPT !.status = HealthStatus(r.ok),
                                           !.version = r.out[1]])
            ELSE At("endTime", [loc EXCEPT !.status = HealthStatus(r.ok),
                                           !.error = r.out])
      [] pc = "endTime" ->
            IF r.ok THEN At("recordHealth",
                            [loc EXCEPT !.time = TimeRead(r, clock) - loc.start])
            ELSE At("return", loc)
      [] pc = "recordHealth" ->
            IF r.ok THEN At("updateHealth", loc) ELSE At("return", loc)
      [] pc = "updateHealth" -> IF r.ok THEN At("timer", loc) ELSE At("return", loc)
      [] pc = "timer" -> At("continueAsNew", loc)

\* registry.rs:1-127  the function registered under each orchestration name
WorkflowCall(wf, pc, loc) ==
    CASE wf = "CreateInstance" -> CreateCall(pc, loc)
      [] wf = "DeleteInstance" -> DeleteCall(pc, loc)
      [] wf = "InstanceActor" -> ActorCall(pc, loc)

WorkflowAfter(wf, pc, loc, r, clock) ==
    CASE wf = "CreateInstance" -> CreateAfter(pc, loc, r, clock)
      [] wf = "DeleteInstance" -> DeleteAfter(pc, loc, r, clock)
      [] wf = "InstanceActor" -> ActorAfter(pc, loc, r, clock)

FirstStep(wf) ==
    CASE wf = "CreateInstance" -> "reserve"
      [] wf = "DeleteInstance" -> "lookup"
      [] wf = "InstanceActor" -> "getConn"

\* calls whose result the function does not await: the detached actor
\* (create_instance.rs:295-299) and continue-as-new (instance_actor.rs:155)
NotAwaited == {"orchestration", "continue_as_new"}

\* the function run from position pc against the results h[i..]: the calls it
\* schedules until it returns or awaits a result the history does not hold
RECURSIVE Run(_, _, _, _, _, _, _)
Run(wf, pc, loc, h, i, calls, clock) ==
    IF pc = "return" THEN [calls |-> calls, returned |-> TRUE]
    ELSE LET c == WorkflowCall(wf, pc, loc)
         IN  IF c.kind \in NotAwaited
             THEN LET n == WorkflowAfter(wf, pc, loc, Unit, clock)
                  IN  Run(wf, n.pc, n.loc, h, i, Append(calls, c), clock)
             ELSE IF i > Len(h)
             THEN [calls |-> Append(calls, c), returned |-> FALSE]
             ELSE LET n == WorkflowAfter(wf, pc, loc, h[i], clock)
                  IN  Run(wf, n.pc, n.loc, h, i + 1, Append(calls, c), clock)

\* one replay of the history h from scratch, on a worker whose clock reads clock
Replay(wf, h, clock) == Run(wf, FirstStep(wf), NoLocals, h, 1, <<>>, clock)

\* outputs an activity or sub-orchestration can complete with
Outputs(c) ==
    CASE c.name = "WAIT_FOR_READY" -> {<<"ready">>, <<"pending">>}
      [] c.name = "GET_CONNECTION_STRINGS" -> {<<"ip", "dns">>, <<"ip", "">>}
      [] c.name = "TEST_CONNECTION" -> {<<"18">>}
      [] c.name = "GET_INSTANCE_CONNECTION" ->
            {<<"found", "ip">>, <<"found", "">>, <<"notfound", "">>}
      [] c.name = "GET_INSTANCE_BY_K8S_NAME" ->
            {<<"found", "actor-a">>, <<"found", "">>, <<"notfound", "">>}
      [] c.name \in {"DELETE_POSTGRES", "DELETE_INSTANCE"} -> {<<"true">>, <<"false">>}
      [] OTHER -> {<<>>}

\* what the runtime can record for the call c
Results(c) ==
    CASE c.kind = "timer" -> {Fired}
      [] c.kind = "utcnow" -> {Result(TRUE, <<>>, n) : n \in Times} \cup {Failure}
      [] OTHER -> {Result(TRUE, o, 0) : o \in Outputs(c)} \cup {Failure}

\* the call the execution awaits when replayed on a worker whose clock reads
\* clock, if it has not returned
Pending(clock) ==
    LET run == Replay(replay.wf, replay.h, clock)
    IN  IF run.returned THEN {} ELSE {run.calls[Len(run.calls)]}

Timers(h) == Cardinality({i \in 1..Len(h) : h[i] = Fired})

\* the runtime records the result r of the call c the execution awaits
Record(c, r) ==
    /\ Timers(replay.h) <= MaxStalls
    /\ r \in Results(c)
    /\ replay' = [replay EXCEPT !.h = Append(@, r)]
    /\ UNCHANGED <<rows, nextId, k8s, createVars, deleteVars, actorVars, dup,
                   faults, stalls, dups, started, utx, events, rcall>>

ReplayInit ==
    /\ InitCore(0, 0, 0)
    /\ started = {}
    /\ utx = [w \in Workers |-> NoTx]
    /\ events = <<>>
    /\ replay \in {[wf |-> wf, h |-> <<>>] : wf \in Workflows}
    /\ rcall = NoCall

ReplayNext ==
    \E clock \in Clocks : \E c \in Pending(clock) : \E r \in Results(c) : Record(c, r)

SpecReplay == ReplayInit /\ [][ReplayNext]_vars

IsPrefix(s, u) == Len(s) <= Len(u) /\ SubSeq(u, 1, Len(s)) = s

Callers(k) == {CreateId(k), <<"create", k, "other">>}

\* the catalogs, each row written by one of the callers
OwnedCatalogs ==
    UNION {{[k \in DOMAIN c |-> [c[k] EXCEPT !.owner = o[k]]] :
               o \in [DOMAIN c -> UNION {Callers(k) : k \in Instances}]} :
           c \in Catalogs}

ReserveInit ==
    \E cat \in OwnedCatalogs :
        /\ \A k \in DOMAIN cat : cat[k].owner \in Callers(k)
        /\ InitOver(cat, 3, 0, 0, 0)

\* create_instance_record.rs:12-119  CMS:Reserve Record with any input
ReserveAs(k, d, orch) ==
    /\ nextId <= MaxIds
    /\ LET r == CreateInstanceRecord(rows, nextId, k, d, orch)
       IN  /\ rows' = r.cat
           /\ nextId' = r.nid
           /\ rcall' = [k8s_name |-> k, dns_name |-> d, orchestration_id |-> orch,
                        res |-> r.res]
    /\ UNCHANGED <<k8s, createVars, deleteVars, actorVars, dup, faults, stalls, dups,
                   started, utx, events, replay>>

ReserveNext ==
    \E k \in Instances, d \in LabelChoices : \E orch \in Callers(k) : ReserveAs(k, d, orch)

SpecReserve == ReserveInit /\ [][ReserveNext]_vars

\* C29: CMS:Reserve Record for a k8s_name whose row was written by another
\* orchestration_id fails and leaves the catalog as it was; a row that exists
\* is rewritten only by the orchestration_id that created it.
ReserveByOtherFails ==
    [][\A k \in Instances :
          rcall'.k8s_name = k /\ Present(rows, k)
             => /\ rows[k].owner # rcall'.orchestration_id
                   => ~rcall'.res.ok /\ rows' = rows /\ nextId' = nextId
                /\ rows'[k] # rows[k] => rows[k].owner = rcall'.orchestration_id]_vars

\* another orchestration's Reserve Record was refused on a live row
RefusedOtherOwner ==
    /\ rcall.k8s_name \in DOMAIN rows
    /\ rows[rcall.k8s_name].owner # rcall.orchestration_id
    /\ rows[rcall.k8s_name].state = "creating"
    /\ rows[rcall.k8s_name].dns_name # rcall.dns_name
    /\ ~rcall.res.ok

\* ------------------------------------------------------------------------
\* CMS:Update State as concurrent transactions of the workers
\* ------------------------------------------------------------------------
MaxEvents == 3

\* variant: the INSERT into instance_events is not conditional
EventInsertedAlways(previous_state, state) == TRUE

\* update_instance_state.rs:65  if previous_state != input.state
EventInserted(previous_state, state) == previous_state # state

\* update_instance_state.rs:19-25  SELECT .. FOR UPDATE waits while another
\* transaction holds the lock of the row
RowLockFree(k) == \A w \in Workers : ~(utx[w].pc = "locked" /\ utx[w].k = k)

\* update_instance_state.rs:13-41  begin, SELECT id, state .. FOR UPDATE; a
\* missing row ends the activity with updated=false
UpdateSelect(w, k, state) ==
    /\ utx[w].pc = "idle"
    /\ Len(events) < MaxEvents
    /\ IF Present(rows, k)
       THEN /\ RowLockFree(k)
            /\ utx' = [utx EXCEPT ![w] = [pc |-> "locked", k |-> k, state |-> state,
                                          id |-> rows[k].id,
                                          previous_state |-> rows[k].state]]
       ELSE UNCHANGED utx
    /\ UNCHANGED <<rows, nextId, k8s, createVars, deleteVars, actorVars, dup, faults,
                   stalls, dups, started, events, replay, rcall>>

\* update_instance_state.rs:43-88  UPDATE, INSERT of the event if the state
\* changed, commit: the writes become visible and the lock is released
UpdateCommit(w) ==
    /\ utx[w].pc = "locked"
    /\ rows' = UpdateInstanceState(rows, utx[w].k, utx[w].state, FALSE).cat
    /\ events' = IF EventInserted(utx[w].previous_state, utx[w].state)
                 THEN Append(events, [instance_id |-> utx[w].id,
                                      old_state |-> utx[w].previous_state,
                                      new_state |-> utx[w].state])
                 ELSE events
    /\ utx' = [utx EXCEPT ![w] = NoTx]
    /\ UNCHANGED <<nextId, k8s, createVars, deleteVars, actorVars, dup, faults,
                   stalls, dups, started, replay, rcall>>

\* the rows the workflows wrote, before any of them changed state
NewCatalogs == {c \in Catalogs : \A k \in DOMAIN c : c[k].state = "creating"}

EventsInit == \E cat \in NewCatalogs : InitOver(cat, 3, 0, 0, 0)

EventsNext ==
    \/ \E w \in Workers, k \in Instances, state \in WrittenStates :
          UpdateSelect(w, k, state)
    \/ \E w \in Workers : UpdateCommit(w)

SpecEvents == EventsInit /\ [][EventsNext]_vars

\* the events of the row with id i, in insertion order
EventsOf(i) == SelectSeq(events, LAMBDA e : e.instance_id = i)

\* C30: whatever the interleaving and duplication of CMS:Update State, a step
\* appends an event exactly when it changes the stored state of a row, the
\* event holding that row's id, old and new state; every event has
\* old_state # new_state and continues the row's previous event.
EventPerStateChange ==
    /\ [][LET changed == {k \in DOMAIN rows : rows'[k].state # rows[k].state}
          IN  /\ changed = {} <=> events' = events
              /\ \A k \in changed :
                    events' = Append(events, [instance_id |-> rows[k].id,
                                              old_state |-> rows[k].state,
                                              new_state |-> rows'[k].state])]_vars
    /\ [](\A i \in 1..Len(events) : events[i].old_state # events[i].new_state)
    /\ [](\A k \in DOMAIN rows :
             LET es == EventsOf(rows[k].id)
             IN  /\ \A i \in 1..(Len(es) - 1) : es[i + 1].old_state = es[i].new_state
                 /\ es # <<>> => es[Len(es)].new_state = rows[k].state)

\* two workers wrote the same state to one row, one after the other, and the
\* row changed state twice
DuplicateUpdateNoEvent ==
    \E k \in DOMAIN rows, w \in Workers :
        /\ Len(EventsOf(rows[k].id)) = 2
        /\ utx[w].pc = "locked"
        /\ utx[w].k = k
        /\ utx[w].state = utx[w].previous_state

\* ------------------------------------------------------------------------
\* CMS:Update State, one invocation at a time, with what it returned
\* ------------------------------------------------------------------------
\* update_instance_state.rs:9-93  the whole activity; utx keeps the worker's
\* last input and whether it returned updated=true or updated=false
UpdateStateCall(w, k, state) ==
    /\ Len(events) < MaxEvents
    /\ LET r == UpdateInstanceState(rows, k, state, FALSE)
       IN  /\ rows' = r.cat
           /\ events' = IF r.updated /\ EventInserted(r.previous_state, state)
                        THEN Append(events, [instance_id |-> r.cat[k].id,
                                             old_state |-> r.previous_state,
                                             new_state |-> state])
                        ELSE events
           /\ utx' = [utx EXCEPT ![w] =
                        [pc |-> IF r.updated THEN "updated" ELSE "notfound",
                         k |-> k, state |-> state,
                         id |-> IF r.updated THEN r.cat[k].id ELSE 0,
                         previous_state |-> r.previous_state]]
    /\ UNCHANGED <<nextId, k8s, createVars, deleteVars, actorVars, dup, faults,
                   stalls, dups, started, replay, rcall>>

UpdateNext ==
    \E w \in Workers, k \in Instances, state \in WrittenStates : UpdateStateCall(w, k, state)

SpecUpdate == EventsInit /\ [][UpdateNext]_vars

\* C31: CMS:Update State for a k8s_name without a catalog row returns
\* updated=false, adds no row, changes no row and appends no event.
UpdateOfMissingRow ==
    [][\A w \in Workers :
          utx'[w] # utx[w] /\ ~Present(rows, utx'[w].k)
             => /\ utx'[w].pc = "notfound"
                /\ rows' = rows
                /\ events' = events]_vars

\* Update State returned updated=false for a row that is not there while
\* another row exists
UpdatedMissingRow ==
    \E w \in Workers :
        /\ utx[w].pc = "notfound"
        /\ ~Present(rows, utx[w].k)
        /\ rows # <<>>

\* ------------------------------------------------------------------------
\* CreateInstance with a pod that gets ready at any attempt, or never, and
\* probes that may return an error
\* ------------------------------------------------------------------------
ProbeInit == InitWith(FairFaults, max_attempts + MaxStalls, 0)

ProbeNext ==
    \/ StallNext
    \/ \E k \in Focus : CreateProbeError(k)
    \/ \E k \in Focus : CreateProbeReady(k)
    \/ \E k \in Focus : CreateConn(k)
    \/ \E k \in Focus : CreateTest(k)
    \/ \E k \in Focus : CreateMarkRunning(k)
    \/ \E k \in Focus : CreateStartActor(k)
    \/ \E k \in Focus : CreateRecordActor(k)

SpecProbe == ProbeInit /\ [][ProbeNext]_vars

\* C32: CreateInstance makes at most 60 Pod-Readiness Probes, one 5-second
\* timer between every two consecutive ones, none after the probe that
\* answered is_ready=true, and a probe that returns an error fails the body
\* at once.
ProbesBoundedAndSeparated ==
    /\ [](\A k \in Focus :
             LET log == chist[k].log
             IN  /\ Count(log, "probe") <= max_attempts
                 /\ Interleaved(log)
                 /\ \A i \in DOMAIN log :
                       log[i] = "conn" => \A j \in DOMAIN log : log[j] = "probe" => j < i
                 /\ \A i, j \in DOMAIN log :
                       log[i] = "probe" /\ log[j] = "probe" /\ i < j
                          => log[i + 1] = "timer")
    /\ [][\A k \in Focus :
             /\ cpc[k] = "probe" /\ faults' < faults
                   => cpc'[k] = "markFailed" /\ chist'[k].err = "probe"
             /\ cpc'[k] = "probe" /\ cpc[k] # "probe" => cpc[k] \in {"deploy", "timer"}
             /\ cpc'[k] = "timer" /\ cpc[k] # "timer"
                   => cpc[k] = "probe" /\ stalls' < stalls]_vars

\* the pod got ready at a later attempt: probes, timers between them, then
\* the connection strings
ReadyAfterWaiting ==
    \E k \in Focus :
        /\ Count(chist[k].log, "probe") = 3
        /\ Count(chist[k].log, "timer") = 2
        /\ cpc[k] = "test"

BestEffortSteps == {"markDeleting", "raise", "markDeleted", "deleteRecord"}

\* C33: DeleteInstance fails exactly when CMS:Lookup or K8s Delete returns an
\* error; an error of CMS:Update State, Raise Event, CMS:Delete Record or
\* CMS:Free DNS is logged, the steps after it still run, and the workflow
\* completes with deleted as K8s Delete returned it.
DeleteFailsOnlyOnLookupOrK8s ==
    /\ [][\A d \in FocusDeletes :
             dpc'[d] # dpc[d] /\ dpc[d] # "none"
                => /\ dpc'[d] = "failed"
                      <=> dpc[d] \in {"lookup", "k8sDelete"} /\ faults' < faults
                   /\ dpc[d] \in BestEffortSteps /\ faults' < faults
                         => dpc[d] \in dloc'[d].warned
                   /\ dpc[d] = "k8sDelete" /\ dpc'[d] # "failed"
                         => dloc'[d].deleted = DeletePostgres(k8s[d[2]]).deleted
                   /\ dpc[d] # "k8sDelete" => dloc'[d].deleted = dloc[d].deleted]_vars
    /\ [](\A d \in FocusDeletes :
             dpc[d] = "done"
                => LET log == dloc[d].log
                   IN  /\ Len(log) >= 4
                       /\ SubSeq(log, Len(log) - 3, Len(log))
                            = <<"k8sDelete", "markDeleted", "deleteRecord", "freeDns">>
                          \/ SubSeq(log, Len(log) - 4, Len(log))
                            = <<"k8sDelete", "raise", "markDeleted", "deleteRecord",
                                "freeDns">>)

\* a DeleteInstance completed although two of its best-effort steps failed
DeletedDespiteErrors ==
    \E d \in FocusDeletes :
        /\ dpc[d] = "done"
        /\ {"markDeleted", "deleteRecord"} \subseteq dloc[d].warned

\* the calls of the replayed execution; the clock does not matter (C27)
ReplayedRun == Replay(replay.wf, replay.h, CHOOSE clock \in Clocks : TRUE)

\* C34: in an InstanceActor iteration that probes, CMS:Record Health and
\* CMS:Update Health are given the same status, healthy exactly when the
\* TCP/SQL Probe succeeded; after a failed probe the iteration goes on to
\* record the health and, if nothing else fails, ends in continue-as-new.
HealthStatusFollowsProbe ==
    replay.wf = "InstanceActor"
    => LET calls == ReplayedRun.calls
           h == replay.h
       IN  \A i \in 1..Len(h) :
              calls[i].name = "TEST_CONNECTION"
              => /\ \A j \in 1..Len(calls) :
                       calls[j].name \in {"RECORD_HEALTH_CHECK", "UPDATE_INSTANCE_HEALTH"}
                       => calls[j].args[2] = IF h[i].ok THEN "healthy" ELSE "unhealthy"
                 /\ Len(h) > i /\ h[i + 1].ok
                       => /\ Len(calls) >= i + 2
                          /\ calls[i + 2].name = "RECORD_HEALTH_CHECK"
                 /\ (Len(h) > i /\ \A j \in (i + 1)..Len(h) : h[j].ok)
                       => /\ ReplayedRun.returned
                             => calls[Len(calls)].kind = "continue_as_new"
                          /\ Len(h) > i + 2
                             => calls[i + 3].name = "UPDATE_INSTANCE_HEALTH"

\* an iteration whose probe failed wrote unhealthy twice and continued as new
UnhealthyIterationContinued ==
    /\ replay.wf = "InstanceActor"
    /\ ReplayedRun.returned
    /\ LET calls == ReplayedRun.calls
       IN  /\ calls[Len(calls)].kind = "continue_as_new"
           /\ \E j \in 1..Len(calls) :
                 calls[j].name = "UPDATE_INSTANCE_HEALTH" /\ calls[j].args[2] = "unhealthy"

ActorActivities ==
    <<"GET_INSTANCE_CONNECTION", "TEST_CONNECTION", "RECORD_HEALTH_CHECK",
      "UPDATE_INSTANCE_HEALTH">>

\* the calls of the given kind, in the order they were scheduled
OfKind(calls, kind) == SelectSeq(calls, LAMBDA c : c.kind = kind)

\* C35: an InstanceActor execution schedules at most the four activities Get
\* Connection, TCP/SQL Probe, Record Health, Update Health, in this order, and
\* at most one timer of 30 s; it ends by returning or by continue-as-new with
\* its own input; without a connection string it schedules the timer right
\* after Get Connection, no probe and no health write.
ActorExecutionIsBounded ==
    replay.wf = "InstanceActor"
    => LET calls == ReplayedRun.calls
           acts == OfKind(calls, "activity")
           timers == OfKind(calls, "timer")
           cont == OfKind(calls, "continue_as_new")
           h == replay.h
       IN  /\ Len(acts) <= 4
           /\ \A i \in 1..Len(acts) : acts[i].name = ActorActivities[i]
           /\ Len(timers) <= 1
           /\ \A i \in 1..Len(timers) : timers[i].num = 30000
           /\ Len(cont) <= 1
           /\ \A i \in 1..Len(calls) :
                 calls[i].kind = "continue_as_new"
                 => /\ i = Len(calls)
                    /\ ReplayedRun.returned
                    /\ calls[i].args = ActorInput
                    /\ calls[i - 1].kind = "timer"
           /\ Len(h) >= 1 /\ h[1].ok /\ h[1].out = <<"found", "">>
                 => /\ calls[2].kind = "timer"
                    /\ Len(acts) = 1

\* an execution without a connection string waited 30 s and continued as new
IdleIterationContinued ==
    /\ replay.wf = "InstanceActor"
    /\ Len(replay.h) = 2
    /\ replay.h[1].out = <<"found", "">>
    /\ ReplayedRun.returned

Deleting(k) == Present(rows, k) /\ rows[k].state = "deleting"

DeletedOrRemoved(k) == ~Present(rows, k) \/ rows[k].state = "deleted"

DeletesOf(k) == {d \in FocusDeletes : d[2] = k}

\* every DeleteInstance of k that was started has terminated, and one of them
\* failed at K8s Delete or had both CMS:Update State(deleted) and CMS:Delete
\* Record fail
DeleteGaveUp(k) ==
    /\ \A d \in DeletesOf(k) : dpc[d] \in {"none", "done", "failed"}
    /\ \E d \in DeletesOf(k) :
          \/ /\ dpc[d] = "failed"
             /\ dloc[d].log # <<>>
             /\ dloc[d].log[Len(dloc[d].log)] = "k8sDelete"
          \/ /\ dpc[d] = "done"
             /\ {"markDeleted", "deleteRecord"} \subseteq dloc[d].warned

CreateTerminated(k) == cpc[k] \in {"done", "failed"}

UserDeleteTerminated(k) == dpc[DeleteId(k)] \in {"done", "failed"}

\* a Service, StatefulSet or PVC of the name exists and the catalog has no
\* row of it
OrphanedResources(k) ==
    /\ k8s[k].svc \/ k8s[k].sts \/ k8s[k].pvc
    /\ ~Present(rows, k)

\* C37 as stated: once the CreateInstance and the DeleteInstance of a name
\* have both terminated, no Kubernetes resource of the name is left without
\* a catalog row.
NoOrphanAfterBoth ==
    \A k \in Focus :
        (CreateTerminated(k) /\ UserDeleteTerminated(k)) => ~OrphanedResources(k)

PvcOnly == [pvc |-> TRUE, sts |-> FALSE, svc |-> FALSE]

\* an earlier DeleteInstance of the name failed inside K8s Delete
DeleteWasInterrupted(d) ==
    \E e \in DeletesOf(d[2]) :
        /\ e # d
        /\ dpc[e] = "failed"
        /\ dloc[e].log # <<>>
        /\ dloc[e].log[Len(dloc[e].log)] = "k8sDelete"

\* C38 as stated: K8s Delete invoked again after an invocation that was
\* interrupted with the Service and the StatefulSet deleted and the PVC not,
\* when it returns success, leaves none of the three resources.
DeleteAgainRemovesAll ==
    [][\A d \in FocusDeletes :
        (/\ dpc[d] = "k8sDelete"
         /\ DeleteWasInterrupted(d)
         /\ k8s[d[2]] = PvcOnly
         /\ dpc'[d] \notin {"k8sDelete", "failed"})
        => k8s'[d[2]] = NoResources]_vars

\* C39 as stated: K8s Deploy invoked again after an invocation that was
\* interrupted after creating the PVC and before creating the StatefulSet
\* returns success with the PVC, the StatefulSet and the Service existing.
DeployAgainCreatesAll ==
    [][\A k \in Focus :
        (/\ cpc[k] = "deploy"
         /\ k8s[k] = PvcOnly
         /\ cpc'[k] # "deploy"
         /\ faults' = faults)
        => /\ cpc'[k] = "probe"
           /\ k8s'[k] = [pvc |-> TRUE, sts |-> TRUE, svc |-> TRUE]]_vars

\* CMS:Reserve Record of another orchestration, create-b, asking for the
\* label of instance k, executed on the catalog as it is now
ReserveByOther(k) ==
    CreateInstanceRecord(rows, nextId, "b", clabel[k], CreateId("b")).res

\* the failed CreateInstance of k is past its CMS:Free DNS step
FailedCreateRanFreeDns(k) ==
    /\ cpc[k] \in {"cleanup", "cleanupWait", "failed"}
    /\ \E i \in 1 .. Len(chist[k].log) : chist[k].log[i] = "freeDns"

\* C40 as stated: after a DeleteInstance of an instance has completed, or
\* after its failed CreateInstance has run CMS:Free DNS, CMS:Reserve Record
\* by a different orchestration for the same dns label succeeds.
LabelReservableAfterRelease ==
    \A k \in Focus :
        (/\ clabel[k] # NULL
         /\ DeleteCompleted(k) \/ FailedCreateRanFreeDns(k))
        => ReserveByOther(k).ok

====
